---------------------------- MODULE Spec2Model ----------------------------
(***************************************************************************)
(* A model of the REST client core of the mizban CLI:                      *)
(*   - api.Client.request and its verb helpers (package api),              *)
(*   - the tolerant JSON adapters types.NumericBool / types.FlexibleString,*)
(*   - the configuration the client reads and the commands persist         *)
(*     (package config: GetConfig, Load, Save, Logout),                    *)
(*   - ParseData and the commands of package cli, each by the client       *)
(*     calls it makes, its checks before them and what it does with the    *)
(*     answer,                                                             *)
(*   - formatBytes on 64-bit integers.                                     *)
(* JSON texts are modelled by their syntax trees; a text that is not       *)
(* well-formed JSON is the value Malformed.  encoding/json is modelled by  *)
(* what it does on those trees (type errors, null no-ops, raw messages).   *)
(***************************************************************************)
EXTENDS Integers, Sequences, FiniteSets, TLC

\* ------------------------------------------------------------------ bounds
\* Largest coefficient of a JSON number literal.
MaxMant == 2
\* Longest JSON array handed to an adapter.
MaxArr == 2

\* --------------------------------------------------------------- constants
\* part_000:75  if resp.StatusCode == 401
StatusUnauthorized == 401
\* part_000:79  if resp.StatusCode == 429
StatusTooManyRequests == 429

\* ------------------------------------------------------------ JSON syntax
\* Go's nil (nil pointer, nil error, nil slice, nil interface).
Nil == [kind |-> "nil"]
\* A byte sequence that is not one well-formed JSON value (empty body, an
\* HTML error page, a truncated document, trailing garbage).
Malformed == [kind |-> "malformed"]

JNull == [kind |-> "null"]
JBool(b) == [kind |-> "bool", b |-> b]
JStr(s) == [kind |-> "string", s |-> s]
\* The number literal  (-)mant * 10^exp, e.g. 1.0 is mant 10, exp -1.
JNum(neg, mant, exp) == [kind |-> "number", neg |-> neg, mant |-> mant, exp |-> exp]
JArr(elems) == [kind |-> "array", elems |-> elems]
JObj(members) == [kind |-> "object", members |-> members]

\* Exponents of the number literals drawn: fractions, integers, and literals
\* beyond both ends of the float64 range (1e400, 1e-400).
JSONExps == {-400, -1, 0, 400}

JSONNumbers == {JNum(n, m, e) : n \in BOOLEAN, m \in 0..MaxMant, e \in JSONExps}

\* ------------------------------------------------------------ the config
\* config.go:30-32  the default base URL; the other is a value a config file
\* can hold that net/url refuses ("missing ']' in host").
DefaultBaseURL == "https://auth.mizbancloud.com/api"
BadBaseURL == "http://[::1"
BaseURLs == {DefaultBaseURL, BadBaseURL}
Tokens == {"tok1", "tok2"}
Endpoints == {"/v1/support/tickets", "/v1/cdn/ng/domains/7"}

VARIABLES
    config,      \* the *config.Config the client holds: [Token, BaseURL]
    pc,          \* where the process is: "idle", "waiting" (inside httpClient.Do), "returned"
    call,        \* the arguments of the running / last request(): method, endpoint, body
    wire,        \* the *http.Request handed to httpClient.Do by the current call, or Nil
    dispatched,  \* how many times the current call of request() invoked httpClient.Do
    reply,       \* what the transport delivered to the current call, or Nil
    ret,         \* the (*Response, error) pair the last call returned, or Nil
    nb,          \* a types.NumericBool value
    fs,          \* a types.FlexibleString value
    dec,         \* the last adapter decode: [op, input, err]
    enc,         \* the last adapter encode: [op, value, text, err]
    parsed,      \* what the last ParseData returned: [type, val, err], or Nil
    file,        \* ~/.mizbancloud/config.yaml: NoFile, BadFile or a YAML mapping
    env,         \* the process environment: variable name -> value ("": unset)
    instance,    \* the package variable instance: Nil or the pointer to config
    once,        \* the sync.Once of the config package: [done, locked]
    gs,          \* per goroutine: where it is in GetConfig, and what it got
    loads,       \* how many times Config.Load has run in this process
    client,      \* the *api.Client of the running command, or Nil
    cmd,         \* the running command: [name, phase, ...], or Nil
    fb           \* a call of formatBytes: [bytes, out], out Nil until it returned

vars ==
    <<config, pc, call, wire, dispatched, reply, ret, nb, fs, dec, enc, parsed,
      file, env, instance, once, gs, loads, client, cmd, fb>>
clientVars == <<config, pc, call, wire, dispatched, reply, ret>>
adapterVars == <<nb, fs, dec, enc>>
parseVars == <<parsed>>
storeVars == <<file, env, instance, once, gs, loads>>
cmdVars == <<client, cmd>>
formatVars == <<fb>>
\* What the operations of each part leave alone.
exceptClient == <<adapterVars, parseVars, formatVars, storeVars, cmdVars>>
exceptAdapters == <<clientVars, parseVars, formatVars, storeVars, cmdVars>>
exceptParse == <<clientVars, adapterVars, storeVars, cmdVars, formatVars>>
exceptStore == <<pc, call, wire, dispatched, reply, ret, adapterVars, parseVars, formatVars, cmdVars>>

\* A Go error value carrying its message; Nil is the nil error.
Error(msg) == [kind |-> "error", msg |-> msg]

\* ------------------------------------------------------- the config store
\* How many goroutines call GetConfig, and how often each.
NumGoroutines == 2
MaxCalls == 2
Goroutines == 1..NumGoroutines

\* The address GetConfig stores in instance (config.go:30): there is one
\* Config object, and the variable config holds its fields.
Ptr == [kind |-> "ptr", to |-> "config"]

\* The config file: absent, not YAML, or a YAML mapping key -> string.
NoFile == [kind |-> "nofile"]
BadFile == [kind |-> "badyaml"]
YAML(m) == [kind |-> "yaml", members |-> m]
OtherBaseURL == "https://staging.mizbancloud.com/api"
FileMembers ==
    [token |-> {"", "tok1"}, base_url |-> {DefaultBaseURL, OtherBaseURL, BadBaseURL},
     api_token |-> {"tok1"}]
Files ==
    {NoFile, BadFile}
        \cup UNION { {YAML(m) : m \in {f \in [keys -> Tokens \cup {""} \cup BaseURLs \cup {OtherBaseURL}] :
                                           \A k \in keys : f[k] \in FileMembers[k]}}
                     : keys \in {{}, {"token"}, {"base_url"}, {"token", "base_url"},
                                 {"api_token", "base_url"}} }

\* c.Load(), config.go:38-45: a file that cannot be read or is not YAML is
\* an error and leaves c alone; a mapping sets the fields whose keys (token,
\* base_url: config.go:19-20) it has and skips other keys.
Load(c, f) ==
    IF f.kind = "nofile" THEN [c |-> c, err |-> Error("open config.yaml: no such file")]
    ELSE IF f.kind = "badyaml" THEN [c |-> c, err |-> Error("yaml: unmarshal error")]
    ELSE [c |-> [Token |-> IF "token" \in DOMAIN f.members
                           THEN f.members["token"] ELSE c.Token,
                 BaseURL |-> IF "base_url" \in DOMAIN f.members
                             THEN f.members["base_url"] ELSE c.BaseURL],
          err |-> Nil]

\* What c.Save() writes, config.go:54-58: both fields, under their yaml keys.
Stored(c) == YAML([token |-> c.Token, base_url |-> c.BaseURL])


\* ------------------------------------------------- encoding/json on trees
JSONKinds == {"null", "bool", "number", "string", "array", "object"}
WellFormed(data) == data.kind \in JSONKinds

\* ------------------------------------------------------ the response body
\* Response (part_000:19-23): the zero value and a constructor.
Response(success, message, data) ==
    [kind |-> "Response", Success |-> success, Message |-> message, Data |-> data]

\* Mutant: a zero value that counts as a success.
ZeroResponse_Succeeds == Response(TRUE, "", Nil)

ZeroResponse == Response(FALSE, "", Nil)

\* Payloads the API puts under "data".
TicketData ==
    JObj([id |-> JNum(FALSE, 42, 0), subject |-> JStr("x"), status |-> JStr("open")])
\* Values the server (or a proxy in front of it) puts under each key of the
\* envelope, of the right JSON type and of a wrong one.
EnvelopeValues ==
    [success |-> {JBool(TRUE), JBool(FALSE), JNull, JStr("true")},
     message |-> {JStr("ok"), JStr("quota exceeded"), JNum(FALSE, 1, 0)},
     data    |-> {TicketData, JNull},
     errors  |-> {JObj([k \in {"subject"} |-> JStr("required")])}]
EnvelopeKeys == {"success", "message", "data", "errors"}

\* Every JSON object over the envelope's keys: each key absent or present.
EnvelopeObjects ==
    LET all == UNION {EnvelopeValues[k] : k \in EnvelopeKeys}
    IN  UNION { {JObj(m) : m \in {f \in [keys -> all] :
                                    \A k \in keys : f[k] \in EnvelopeValues[k]}}
                : keys \in SUBSET EnvelopeKeys }

\* The bodies a response can carry: the envelope objects, texts that are no
\* object, and an object of a foreign shape (an error page as JSON).
ResponseBodies ==
    EnvelopeObjects \cup {Malformed, JNull, JBool(TRUE), JStr("ok"), JArr(<<>>),
                          JObj([error |-> JStr("not found")])}

\* HTTP status codes the server answers with.
StatusCodes == {200, StatusUnauthorized, 404, StatusTooManyRequests, 500}

\* json.Unmarshal(respBody, &response) for response of type Response
\* (part_000:83-84).  A text that is not JSON is a syntax error; null leaves
\* the zero value; a non-object cannot be stored in a struct; in an object
\* a member of the wrong type is a type error and leaves its field alone, a
\* null member leaves its field alone, unknown members are skipped, and
\* "data" is kept as the raw text of its value (json.RawMessage).
FieldTypeOK(key, v) ==
    CASE key = "success" -> v.kind \in {"bool", "null"}
      [] key = "message" -> v.kind \in {"string", "null"}
      [] OTHER -> TRUE

\* Mutant: "data" decoded instead of kept raw: a null payload becomes nil.
UnmarshalResponse_DecodedData(body) ==
    IF ~WellFormed(body)
    THEN [err |-> Error("invalid character looking for beginning of value"),
          val |-> ZeroResponse]
    ELSE IF body.kind = "null"
    THEN [err |-> Nil, val |-> ZeroResponse]
    ELSE IF body.kind # "object"
    THEN [err |-> Error("json: cannot unmarshal " \o body.kind
                         \o " into Go value of type api.Response"),
          val |-> ZeroResponse]
    ELSE
      LET m == body.members
          has(k) == k \in DOMAIN m
          success == IF has("success") /\ m["success"].kind = "bool"
                     THEN m["success"].b ELSE FALSE
          message == IF has("message") /\ m["message"].kind = "string"
                     THEN m["message"].s ELSE ""
          data == IF has("data") /\ m["data"].kind # "null" THEN m["data"] ELSE Nil
          bad == {k \in DOMAIN m : ~FieldTypeOK(k, m[k])}
      IN  [err |-> IF bad = {} THEN Nil
                   ELSE Error("json: cannot unmarshal into Go struct field Response"),
           val |-> Response(success, message, data)]

UnmarshalResponse(body) ==
    IF ~WellFormed(body)
    THEN [err |-> Error("invalid character looking for beginning of value"),
          val |-> ZeroResponse]
    ELSE IF body.kind = "null"
    THEN [err |-> Nil, val |-> ZeroResponse]
    ELSE IF body.kind # "object"
    THEN [err |-> Error("json: cannot unmarshal " \o body.kind
                         \o " into Go value of type api.Response"),
          val |-> ZeroResponse]
    ELSE
      LET m == body.members
          has(k) == k \in DOMAIN m
          success == IF has("success") /\ m["success"].kind = "bool"
                     THEN m["success"].b ELSE FALSE
          message == IF has("message") /\ m["message"].kind = "string"
                     THEN m["message"].s ELSE ""
          data == IF has("data") THEN m["data"] ELSE Nil
          bad == {k \in DOMAIN m : ~FieldTypeOK(k, m[k])}
      IN  [err |-> IF bad = {} THEN Nil
                   ELSE Error("json: cannot unmarshal into Go struct field Response"),
           val |-> Response(success, message, data)]


\* ------------------------------------------------------- the request side
Methods == {"GET", "POST", "PUT", "DELETE"}

\* Values a caller passes as the body: nil, a map[string]string
\* (ticket.go:118-123), and a value encoding/json cannot encode (a channel).
TicketBody == [kind |-> "map", entries |-> [subject |-> "x", message |-> "y"]]
UnsupportedBody == [kind |-> "chan"]
Bodies == {Nil, TicketBody, UnsupportedBody}

\* json.Marshal of one value of a map[string]interface{}: a nil slice is
\* null, an int its decimal literal, a []string an array of strings.
MarshalValue(v) ==
    CASE v.kind = "nil" -> JNull
      [] v.kind = "int" -> JNum(v.n < 0, IF v.n < 0 THEN 0 - v.n ELSE v.n, 0)
      [] v.kind = "gobool" -> JBool(v.b)
      [] v.kind = "gostring" -> JStr(v.s)
      [] v.kind = "strings" -> JArr([i \in 1..Len(v.elems) |-> JStr(v.elems[i])])

\* json.Marshal(body) (part_000:45): a map[string]string becomes an object
\* of strings, a map[string]interface{} an object of its values.
Marshal(body) ==
    IF body.kind = "map"
    THEN [err |-> Nil,
          text |-> JObj([k \in DOMAIN body.entries |-> JStr(body.entries[k])])]
    ELSE IF body.kind = "imap"
    THEN [err |-> Nil,
          text |-> JObj([k \in DOMAIN body.entries |-> MarshalValue(body.entries[k])])]
    ELSE [err |-> Error("json: unsupported type"), text |-> Nil]

\* http.NewRequest parses the URL (part_000:52): a base URL net/url refuses
\* makes every URL built from it fail.
URLParses(url) == url \notin {BadBaseURL \o e : e \in Endpoints}

\* Mutant: the Authorization header set whatever the token is.
AuthHeader_Always(token) == [h \in {"Authorization"} |-> "Bearer " \o token]

\* part_000:60-62: the Authorization header, set only for a non-empty token.
AuthHeader(token) ==
    IF token # ""
    THEN [h \in {"Authorization"} |-> "Bearer " \o token]
    ELSE [h \in {} |-> ""]

\* part_000:57-62: the headers of every request.
Headers(token) ==
    [h \in {"Content-Type", "Accept"} |-> "application/json"] @@ AuthHeader(token)

\* part_000:41-62: request() up to the dispatch: either an error returned at
\* once, or the *http.Request to send.
BuildRequest(cfg, method, endpoint, body) ==
    LET url == cfg.BaseURL \o endpoint
        m == IF body # Nil THEN Marshal(body) ELSE [err |-> Nil, text |-> Nil]
    IN  IF m.err # Nil
        THEN [err |-> Error("error marshaling request body: " \o m.err.msg), req |-> Nil]
        ELSE IF ~URLParses(url)
        THEN [err |-> Error("error creating request: parse " \o url), req |-> Nil]
        ELSE [err |-> Nil,
              req |-> [kind |-> "request", method |-> method, url |-> url,
                       header |-> Headers(cfg.Token), body |-> m.text]]

\* The errors request() returns after the dispatch.
ErrTransport == Error("error making request: dial tcp: i/o timeout")
ErrRead == Error("error reading response: unexpected EOF")
ErrUnauthorized == Error("unauthorized: please login again using 'mizban login'")
ErrRateLimited == Error("rate limited: please wait and try again")
ErrParse(reason) == Error("error parsing response: " \o reason)
ErrAPI(message) == Error("API error: " \o message)

\* What request() returns: (*Response, error).
Return(resp, err) == [kind |-> "return", resp |-> resp, err |-> err]

\* Mutant: the body parsed before the status is looked at.
Classify_ParseFirst(status, body, readOK) ==
    IF ~readOK THEN Return(Nil, ErrRead)
    ELSE LET u == UnmarshalResponse(body)
         IN  IF u.err # Nil THEN Return(Nil, ErrParse(u.err.msg))
             ELSE IF status = StatusUnauthorized THEN Return(Nil, ErrUnauthorized)
             ELSE IF status = StatusTooManyRequests THEN Return(Nil, ErrRateLimited)
             ELSE IF ~u.val.Success THEN Return(Nil, ErrAPI(u.val.Message))
             ELSE Return(u.val, Nil)

\* Mutant: success=false reported only for a status outside 2xx.
Classify_TrustStatus(status, body, readOK) ==
    IF ~readOK THEN Return(Nil, ErrRead)
    ELSE IF status = StatusUnauthorized THEN Return(Nil, ErrUnauthorized)
    ELSE IF status = StatusTooManyRequests THEN Return(Nil, ErrRateLimited)
    ELSE LET u == UnmarshalResponse(body)
         IN  IF u.err # Nil THEN Return(Nil, ErrParse(u.err.msg))
             ELSE IF ~u.val.Success /\ status \notin 200..299
             THEN Return(Nil, ErrAPI(u.val.Message))
             ELSE Return(u.val, Nil)

\* Mutant: the error of json.Unmarshal dropped.
Classify_IgnoreParseError(status, body, readOK) ==
    IF ~readOK THEN Return(Nil, ErrRead)
    ELSE IF status = StatusUnauthorized THEN Return(Nil, ErrUnauthorized)
    ELSE IF status = StatusTooManyRequests THEN Return(Nil, ErrRateLimited)
    ELSE LET u == UnmarshalResponse(body)
         IN  IF ~u.val.Success THEN Return(Nil, ErrAPI(u.val.Message))
             ELSE Return(u.val, Nil)

\* Mutant: the decoded envelope returned next to the API error.
Classify_BothOnAPIError(status, body, readOK) ==
    IF ~readOK THEN Return(Nil, ErrRead)
    ELSE IF status = StatusUnauthorized THEN Return(Nil, ErrUnauthorized)
    ELSE IF status = StatusTooManyRequests THEN Return(Nil, ErrRateLimited)
    ELSE LET u == UnmarshalResponse(body)
         IN  IF u.err # Nil THEN Return(Nil, ErrParse(u.err.msg))
             ELSE IF ~u.val.Success THEN Return(u.val, ErrAPI(u.val.Message))
             ELSE Return(u.val, Nil)

\* part_000:70-92: request() once httpClient.Do has returned a response with
\* this status; readOK is whether io.ReadAll delivered the body.
Classify(status, body, readOK) ==
    IF ~readOK THEN Return(Nil, ErrRead)
    ELSE IF status = StatusUnauthorized THEN Return(Nil, ErrUnauthorized)
    ELSE IF status = StatusTooManyRequests THEN Return(Nil, ErrRateLimited)
    ELSE LET u == UnmarshalResponse(body)
         IN  IF u.err # Nil THEN Return(Nil, ErrParse(u.err.msg))
             ELSE IF ~u.val.Success THEN Return(Nil, ErrAPI(u.val.Message))
             ELSE Return(u.val, Nil)

\* Mutant: a client that copies the configuration when it is constructed.
NewClient_Copy ==
    [kind |-> "Client",
     config |-> [kind |-> "Config", Token |-> config.Token, BaseURL |-> config.BaseURL],
     seen |-> config]

\* NewClient(), part_000:31-38: the client keeps the pointer GetConfig
\* returns, not the values behind it.  seen is history, no field of the
\* client: the fields the configuration held when the client was made.
NewClient == [kind |-> "Client", config |-> Ptr, seen |-> config]

\* c.config.Token, c.config.BaseURL (part_000:41, 60-61): the fields read
\* through the client's pointer, which are the fields of the one Config.
ConfigOf(c) == IF c.config = Ptr THEN config ELSE c.config

\* ---------------------------------------------------------------- actions
\* request(method, endpoint, body), part_000:40-64: build, then either return
\* the build error or hand the request to httpClient.Do and block in it.
Request(method, endpoint, body) ==
    /\ pc \in {"idle", "returned"}
    /\ client # Nil
    /\ LET b == BuildRequest(ConfigOf(client), method, endpoint, body)
       IN  /\ call' = [kind |-> "call", method |-> method, endpoint |-> endpoint,
                       body |-> body]
           /\ reply' = Nil
           /\ IF b.err # Nil
              THEN /\ wire' = Nil
                   /\ dispatched' = 0
                   /\ ret' = Return(Nil, b.err)
                   /\ pc' = "returned"
              ELSE /\ wire' = b.req
                   /\ dispatched' = 1
                   /\ ret' = Nil
                   /\ pc' = "waiting"
    /\ UNCHANGED <<config, exceptClient>>

\* Mutant: a Delete helper that sends a body.
Delete_WithBody(endpoint) == Request("DELETE", endpoint, TicketBody)

\* part_000:95-109: the verb helpers.
Get(endpoint) == Request("GET", endpoint, Nil)
Post(endpoint, body) == Request("POST", endpoint, body)
Put(endpoint, body) == Request("PUT", endpoint, body)
Delete(endpoint) == Request("DELETE", endpoint, Nil)

\* part_000:64-67: httpClient.Do fails (no route, refused connection, the
\* 30 s timeout): the call returns the transport error.
DoFails ==
    /\ pc = "waiting"
    /\ reply' = [kind |-> "transport-error"]
    /\ ret' = Return(Nil, ErrTransport)
    /\ pc' = "returned"
    /\ UNCHANGED <<config, call, wire, dispatched, exceptClient>>

\* Mutant: a failed call sends the request a second time before giving up.
Respond_RetryOnce(status, body, readOK) ==
    /\ pc = "waiting"
    /\ reply' = [kind |-> "response", status |-> status,
                 body |-> IF readOK THEN body ELSE Nil, readOK |-> readOK]
    /\ IF Classify(status, body, readOK).err # Nil /\ dispatched < 2
       THEN /\ dispatched' = dispatched + 1
            /\ UNCHANGED <<ret, pc>>
       ELSE /\ ret' = Classify(status, body, readOK)
            /\ pc' = "returned"
            /\ UNCHANGED dispatched
    /\ UNCHANGED <<config, call, wire, exceptClient>>

\* part_000:64-92: httpClient.Do returns a response; the rest of request()
\* runs on it and the call returns.
Respond(status, body, readOK) ==
    /\ pc = "waiting"
    /\ reply' = [kind |-> "response", status |-> status,
                 body |-> IF readOK THEN body ELSE Nil, readOK |-> readOK]
    /\ ret' = Classify(status, body, readOK)
    /\ pc' = "returned"
    /\ UNCHANGED <<config, call, wire, dispatched, exceptClient>>

\* No adapter value exists and none was decoded or encoded.
AdaptersIdle == nb = FALSE /\ fs = "" /\ dec = Nil /\ enc = Nil
\* ParseData has not been called.
ParseIdle == parsed = Nil
\* No call of formatBytes.
FormatIdle == fb = Nil
\* No call of request() was made.
ClientIdle ==
    /\ pc = "idle"
    /\ call = Nil
    /\ wire = Nil
    /\ dispatched = 0
    /\ reply = Nil
    /\ ret = Nil

\* GetConfig has run once and loaded config from the file; no goroutine is
\* inside it.  The environment is empty.
StoreLoaded ==
    /\ file = Stored(config)
    /\ env = [MIZBAN_API_TOKEN |-> ""]
    /\ instance = Ptr
    /\ once = [done |-> TRUE, locked |-> FALSE]
    /\ gs = [g \in Goroutines |-> [pc |-> "idle", calls |-> 0, got |-> Nil]]
    /\ loads = 1
\* NewClient has run (part_000:31-38); no command is running.
CmdIdle ==
    /\ client = NewClient
    /\ cmd = Nil

\* The state after GetConfig has loaded the configuration (config.go:28-45):
\* the token and base URL the file holds, or the defaults without a file.
Init ==
    /\ config \in [Token : {""} \cup Tokens, BaseURL : BaseURLs]
    /\ ClientIdle
    /\ AdaptersIdle
    /\ ParseIdle
    /\ FormatIdle
    /\ StoreLoaded
    /\ CmdIdle

Next ==
    \/ \E e \in Endpoints : Get(e)
    \/ \E e \in Endpoints, b \in Bodies : Post(e, b)
    \/ \E e \in Endpoints, b \in Bodies : Put(e, b)
    \/ \E e \in Endpoints : Delete(e)
    \/ DoFails
    \/ \E s \in StatusCodes, b \in ResponseBodies : Respond(s, b, TRUE)
    \/ \E s \in StatusCodes : Respond(s, Nil, FALSE)

Spec == Init /\ [][Next]_vars


\* ------------------------------------------------- the tolerant adapters
\* JSON strings handed to the adapters: plain text and the spellings
\* strconv.ParseBool knows.
JSONStrings == {"", "abc", "def", "true", "false", "True", "1", "0", "t", "garbage"}

\* Elements of the arrays handed to the adapters.
ArrayElems == {JStr("abc"), JStr("def"), JNull, JNum(FALSE, 1, 0)}
JSONArrays == UNION {{JArr(q) : q \in [1..n -> ArrayElems]} : n \in 0..MaxArr}

\* The texts handed to an adapter's UnmarshalJSON.
JSONTexts ==
    {Malformed, JNull, JBool(TRUE), JBool(FALSE)}
        \cup JSONNumbers
        \cup {JStr(x) : x \in JSONStrings}
        \cup JSONArrays
        \cup {JObj([k \in {} |-> JNull]), TicketData}

RECURSIVE NumDigits(_)
NumDigits(m) == IF m < 10 THEN 1 ELSE 1 + NumDigits(m \div 10)

\* strconv.ParseFloat(s, 64) as encoding/json calls it for a number decoded
\* into interface{} (types.go:13, :20): "zero", "nonzero", or "range" when
\* the literal is beyond float64 (decimal point past 310); a literal whose
\* decimal point is below -330 underflows to zero without an error.
ParseFloat(num) ==
    IF num.mant = 0 THEN "zero"
    ELSE LET dp == NumDigits(num.mant) + num.exp
         IN  IF dp > 310 THEN "range"
             ELSE IF dp < -330 THEN "zero"
             ELSE "nonzero"

\* Whether json.Unmarshal(data, &raw), raw an interface{}, reports an
\* error on well-formed data: some number in it is beyond float64.
RECURSIVE HasRangeError(_)
HasRangeError(v) ==
    CASE v.kind = "number" -> ParseFloat(v) = "range"
      [] v.kind = "array"  -> \E i \in DOMAIN v.elems : HasRangeError(v.elems[i])
      [] v.kind = "object" -> \E k \in DOMAIN v.members : HasRangeError(v.members[k])
      [] OTHER -> FALSE

\* strconv.ParseBool (types.go:25); its error is dropped, so every other
\* spelling parses as false.
ParseBool(str) == str \in {"1", "t", "T", "TRUE", "true", "True"}

\* (*NumericBool).UnmarshalJSON, types.go:11-31: the value *b after the
\* call and the error returned.
NumericBool_UnmarshalJSON(b, data) ==
    IF ~WellFormed(data)
    THEN [b |-> b, err |-> Error("invalid character looking for beginning of value")]
    ELSE IF HasRangeError(data)
    THEN [b |-> b, err |-> Error("json: cannot unmarshal number into Go value of type float64")]
    ELSE CASE data.kind = "bool"   -> [b |-> data.b, err |-> Nil]
           [] data.kind = "number" -> [b |-> ParseFloat(data) # "zero", err |-> Nil]
           [] data.kind = "string" -> [b |-> ParseBool(data.s), err |-> Nil]
           [] OTHER                -> [b |-> FALSE, err |-> Nil]

\* json.Unmarshal(data, &str), str a string (types.go:47-48).
UnmarshalString(data) ==
    CASE data.kind = "string" -> [err |-> Nil, val |-> data.s]
      [] data.kind = "null"   -> [err |-> Nil, val |-> ""]
      [] OTHER -> [err |-> Error("json: cannot unmarshal into Go value of type string"),
                   val |-> ""]

\* json.Unmarshal(data, &arr), arr a []string (types.go:54-55): a null
\* element is an empty string, any other non-string element is an error.
UnmarshalStringSlice(data) ==
    CASE data.kind = "null" -> [err |-> Nil, val |-> <<>>]
      [] data.kind = "array" ->
            [err |-> IF \A i \in DOMAIN data.elems :
                            data.elems[i].kind \in {"string", "null"}
                     THEN Nil
                     ELSE Error("json: cannot unmarshal into Go value of type string"),
             val |-> [i \in DOMAIN data.elems |->
                        IF data.elems[i].kind = "string" THEN data.elems[i].s ELSE ""]]
      [] OTHER -> [err |-> Error("json: cannot unmarshal into Go value of type []string"),
                   val |-> <<>>]

\* Mutant: the last element of the array taken instead of the first.
FlexibleString_UnmarshalJSON_Last(f, data) ==
    LET str == UnmarshalString(data)
        arr == UnmarshalStringSlice(data)
    IN  IF str.err = Nil THEN [f |-> str.val, err |-> Nil]
        ELSE IF arr.err = Nil
        THEN [f |-> IF Len(arr.val) > 0 THEN arr.val[Len(arr.val)] ELSE "", err |-> Nil]
        ELSE [f |-> "", err |-> Nil]

\* (*FlexibleString).UnmarshalJSON, types.go:45-67: the value *f after the
\* call and the error returned.
FlexibleString_UnmarshalJSON(f, data) ==
    LET str == UnmarshalString(data)
        arr == UnmarshalStringSlice(data)
    IN  IF str.err = Nil THEN [f |-> str.val, err |-> Nil]
        ELSE IF arr.err = Nil
        THEN [f |-> IF Len(arr.val) > 0 THEN arr.val[1] ELSE "", err |-> Nil]
        ELSE [f |-> "", err |-> Nil]

\* One decode of a JSON text into the NumericBool.
DecodeBool(data) ==
    /\ LET r == NumericBool_UnmarshalJSON(nb, data)
       IN  /\ nb' = r.b
           /\ dec' = [kind |-> "decode", op |-> "NumericBool", input |-> data,
                      err |-> r.err]
    /\ UNCHANGED <<fs, enc, exceptAdapters>>

\* One decode of a JSON text into the FlexibleString.
DecodeString(data) ==
    /\ LET r == FlexibleString_UnmarshalJSON(fs, data)
       IN  /\ fs' = r.f
           /\ dec' = [kind |-> "decode", op |-> "FlexibleString", input |-> data,
                      err |-> r.err]
    /\ UNCHANGED <<nb, enc, exceptAdapters>>

\* Mutant: the boolean encoded the way the API sends it, as 1 or 0.
NumericBool_MarshalJSON_Numeric(b) ==
    [text |-> JNum(FALSE, IF b THEN 1 ELSE 0, 0), err |-> Nil]

\* NumericBool.MarshalJSON, types.go:33-35: json.Marshal(bool(b)).
NumericBool_MarshalJSON(b) == [text |-> JBool(b), err |-> Nil]

\* FlexibleString.MarshalJSON, types.go:69-71: json.Marshal(string(f)).
FlexibleString_MarshalJSON(f) == [text |-> JStr(f), err |-> Nil]

\* One encode of the NumericBool.
EncodeBool ==
    /\ LET r == NumericBool_MarshalJSON(nb)
       IN  enc' = [kind |-> "encode", op |-> "NumericBool", value |-> JBool(nb), text |-> r.text,
                   err |-> r.err]
    /\ UNCHANGED <<nb, fs, dec, exceptAdapters>>

\* One encode of the FlexibleString.
EncodeString ==
    /\ LET r == FlexibleString_MarshalJSON(fs)
       IN  enc' = [kind |-> "encode", op |-> "FlexibleString", value |-> JStr(fs), text |-> r.text,
                   err |-> r.err]
    /\ UNCHANGED <<nb, fs, dec, exceptAdapters>>

\* The adapters on their own: values a field may hold before a decode.
InitAdapters ==
    /\ nb \in BOOLEAN
    /\ fs \in {"", "old"}
    /\ dec = Nil
    /\ enc = Nil
    /\ config = [Token |-> "", BaseURL |-> DefaultBaseURL]
    /\ ClientIdle
    /\ ParseIdle
    /\ FormatIdle
    /\ StoreLoaded
    /\ CmdIdle

NextAdapters ==
    \/ \E d \in JSONTexts : DecodeBool(d)
    \/ \E d \in JSONTexts : DecodeString(d)
    \/ EncodeBool
    \/ EncodeString

SpecAdapters == InitAdapters /\ [][NextAdapters]_vars


\* ---------------------------------------------------------- ParseData[T]
\* Go values of the field types the commands decode into.
GoInt(n) == [kind |-> "int", n |-> n]
GoString(str) == [kind |-> "gostring", s |-> str]
GoBool(b) == [kind |-> "gobool", b |-> b]
GoStrings(elems) == [kind |-> "strings", elems |-> elems]
ZeroOf(type) ==
    CASE type = "int" -> GoInt(0)
      [] type = "string" -> GoString("")
      [] type = "[]string" -> Nil
      [] OTHER -> GoBool(FALSE)

\* The struct types T: for each JSON key the Go type of its field.  Ticket
\* (ticket.go:14-25; its other fields are further ints and strings) and the
\* profile struct of login (login.go:61-64).
TicketType ==
    [id |-> "int", subject |-> "string", status |-> "string", is_closed |-> "NumericBool"]
ProfileType == [name |-> "string", email |-> "string"]
StructTypes == [Ticket |-> TicketType, Profile |-> ProfileType]

\* encoding/json storing one member into a field: null leaves an int or a
\* string alone and a slice nil; a []string takes an array of strings; an
\* int takes a number literal without fraction or exponent (exp = 0 here),
\* a string takes a string, a NumericBool runs its own UnmarshalJSON;
\* anything else is a type error that leaves the field alone.
UnmarshalField(type, v) ==
    CASE type = "NumericBool" ->
            LET r == NumericBool_UnmarshalJSON(FALSE, v)
            IN  [err |-> r.err, val |-> GoBool(r.b)]
      [] v.kind = "null" -> [err |-> Nil, val |-> ZeroOf(type)]
      [] type = "int" /\ v.kind = "number" /\ v.exp = 0 ->
            [err |-> Nil, val |-> GoInt(IF v.neg THEN 0 - v.mant ELSE v.mant)]
      [] type = "string" /\ v.kind = "string" ->
            [err |-> Nil, val |-> GoString(v.s)]
      [] type = "[]string" /\ v.kind = "array"
            /\ (\A i \in 1..Len(v.elems) : v.elems[i].kind \in {"string", "null"}) ->
            [err |-> Nil,
             val |-> GoStrings([i \in 1..Len(v.elems) |->
                        IF v.elems[i].kind = "string" THEN v.elems[i].s ELSE ""])]
      [] OTHER -> [err |-> Error("json: cannot unmarshal " \o v.kind
                                  \o " into Go struct field of type " \o type),
                   val |-> ZeroOf(type)]

\* json.Unmarshal(resp.Data, &result), result a struct (part_000:112-113):
\* no data at all is "unexpected end of JSON input"; null leaves the zero
\* value without an error; a non-object is a type error; in an object the
\* declared members are stored field by field and the others skipped.  The
\* value next to an error keeps the fields that did decode.
UnmarshalStruct(fields, data) ==
    LET zero == [k \in DOMAIN fields |-> ZeroOf(fields[k])]
    IN  IF data = Nil \/ ~WellFormed(data)
        THEN [err |-> Error("unexpected end of JSON input"), val |-> zero]
        ELSE IF data.kind = "null" THEN [err |-> Nil, val |-> zero]
        ELSE IF data.kind # "object"
        THEN [err |-> Error("json: cannot unmarshal " \o data.kind
                             \o " into Go value of type struct"),
              val |-> zero]
        ELSE
          LET m == data.members
              f(k) == UnmarshalField(fields[k], m[k])
              known == DOMAIN fields \cap DOMAIN m
              bad == {k \in known : f(k).err # Nil}
          IN  [err |-> IF bad = {} THEN Nil ELSE f(CHOOSE k \in bad : TRUE).err,
               val |-> [k \in DOMAIN fields |->
                           IF k \in known THEN f(k).val ELSE ZeroOf(fields[k])]]

\* Mutant: the error of json.Unmarshal dropped by ParseData.
ParseData_NoError(type, resp) ==
    [val |-> UnmarshalStruct(StructTypes[type], resp.Data).val, err |-> Nil]

\* ParseData[T](resp), part_000:111-117.
ParseData(type, resp) ==
    LET u == UnmarshalStruct(StructTypes[type], resp.Data)
    IN  IF u.err # Nil
        THEN [val |-> u.val, err |-> Error("error parsing data: " \o u.err.msg)]
        ELSE [val |-> u.val, err |-> Nil]

\* A caller hands the envelope request() returned to ParseData[T].
CallParseData(type) ==
    /\ pc = "returned"
    /\ ret.resp # Nil
    /\ LET r == ParseData(type, ret.resp)
       IN  parsed' = [kind |-> "parsed", type |-> type, arg |-> ret.resp,
                      val |-> r.val, err |-> r.err]
    /\ UNCHANGED exceptParse

\* Payloads a success envelope carries under "data" for a ticket: every
\* object over these members, and values that are no object.
PayloadValues ==
    [id        |-> {JNum(FALSE, 42, 0), JStr("42"), JNum(FALSE, 15, -1), JNull},
     subject   |-> {JStr("x"), JNum(FALSE, 7, 0), JNull},
     is_closed |-> {JNum(FALSE, 1, 0), JStr("garbage"), JNum(FALSE, 1, 400)},
     note      |-> {JStr("unknown member")}]
PayloadObjects ==
    LET all == UNION {PayloadValues[k] : k \in DOMAIN PayloadValues}
    IN  UNION { {JObj(m) : m \in {f \in [keys -> all] :
                                    \A k \in keys : f[k] \in PayloadValues[k]}}
                : keys \in SUBSET DOMAIN PayloadValues }
Payloads ==
    PayloadObjects
        \cup {TicketData, JNull, JArr(<<>>), JStr("x"), JBool(TRUE), JNum(FALSE, 42, 0)}

\* The body of a success envelope with this payload (Nil: no data member).
SuccessBody(payload) ==
    JObj([k \in {"success", "message"} \cup (IF payload = Nil THEN {} ELSE {"data"}) |->
            CASE k = "success" -> JBool(TRUE)
              [] k = "message" -> JStr("ok")
              [] OTHER -> payload])

\* The state after a request() that succeeded: the envelope in hand.
InitParse ==
    /\ config = [Token |-> "tok1", BaseURL |-> DefaultBaseURL]
    /\ \E d \in Payloads \cup {Nil} :
          /\ call = [kind |-> "call", method |-> "GET",
                     endpoint |-> "/v1/support/tickets", body |-> Nil]
          /\ wire = BuildRequest(config, "GET", "/v1/support/tickets", Nil).req
          /\ dispatched = 1
          /\ reply = [kind |-> "response", status |-> 200, body |-> SuccessBody(d),
                      readOK |-> TRUE]
          /\ ret = Classify(200, SuccessBody(d), TRUE)
          /\ pc = "returned"
    /\ AdaptersIdle
    /\ ParseIdle
    /\ FormatIdle
    /\ StoreLoaded
    /\ CmdIdle

NextParse == \E t \in DOMAIN StructTypes : CallParseData(t)

SpecParse == InitParse /\ [][NextParse]_vars

\* ------------------------------------------------- GetConfig and sync.Once
\* Goroutine g moves to program point p inside GetConfig.
Goto(g, p) == gs' = [gs EXCEPT ![g].pc = p]

\* g calls GetConfig (config.go:28).
GetConfig(g) ==
    /\ gs[g].pc = "idle"
    /\ gs[g].calls < MaxCalls
    /\ gs' = [gs EXCEPT ![g].pc = "do", ![g].calls = @ + 1]
    /\ UNCHANGED <<config, file, env, instance, once, loads, exceptStore>>

\* once.Do, fast path (config.go:29): done is read atomically; when it is
\* set Do returns at once, otherwise it goes on to take the mutex.
OnceDo(g) ==
    /\ gs[g].pc = "do"
    /\ Goto(g, IF once.done THEN "return" ELSE "lock")
    /\ UNCHANGED <<config, file, env, instance, once, loads, exceptStore>>

\* Mutant: a lazy initialisation without the mutex and the second look at
\* done.
OnceLock_Unsynchronised(g) ==
    /\ gs[g].pc = "lock"
    /\ Goto(g, "new")
    /\ UNCHANGED <<config, file, env, instance, once, loads, exceptStore>>

\* once.Do, slow path: wait for the mutex, then look at done again; only
\* the goroutine that finds it clear runs the function.
OnceLock(g) ==
    /\ gs[g].pc = "lock"
    /\ ~once.locked
    /\ once' = [once EXCEPT !.locked = TRUE]
    /\ Goto(g, IF once.done THEN "unlock" ELSE "new")
    /\ UNCHANGED <<config, file, env, instance, loads, exceptStore>>

\* config.go:30-32: instance = &Config{BaseURL: default}.
NewConfig(g) ==
    /\ gs[g].pc = "new"
    /\ instance' = Ptr
    /\ config' = [Token |-> "", BaseURL |-> DefaultBaseURL]
    /\ Goto(g, "load")
    /\ UNCHANGED <<file, env, once, loads, exceptStore>>

\* config.go:33: instance.Load(), its error dropped.
InstanceLoad(g) ==
    /\ gs[g].pc = "load"
    /\ config' = Load(config, file).c
    /\ loads' = loads + 1
    /\ Goto(g, "store")
    /\ UNCHANGED <<file, env, instance, once, exceptStore>>

\* once.Do after the function returned: done is set, then the mutex freed.
OnceStore(g) ==
    /\ gs[g].pc = "store"
    /\ once' = [once EXCEPT !.done = TRUE]
    /\ Goto(g, "unlock")
    /\ UNCHANGED <<config, file, env, instance, loads, exceptStore>>

OnceUnlock(g) ==
    /\ gs[g].pc = "unlock"
    /\ once' = [once EXCEPT !.locked = FALSE]
    /\ Goto(g, "return")
    /\ UNCHANGED <<config, file, env, instance, loads, exceptStore>>

\* config.go:35: return instance.  got is what the caller holds: the
\* pointer, the fields it sees through it, and how often Load had run.
GetConfigReturn(g) ==
    /\ gs[g].pc = "return"
    /\ gs' = [gs EXCEPT ![g].pc = "idle",
                        ![g].got = [kind |-> "got", ptr |-> instance,
                                    sees |-> IF instance = Nil THEN Nil ELSE config,
                                    loads |-> loads]]
    /\ UNCHANGED <<config, file, env, instance, once, loads, exceptStore>>

\* A fresh process: nothing loaded, any config file on disk.
InitOnce ==
    /\ file \in Files
    /\ env = [MIZBAN_API_TOKEN |-> ""]
    /\ instance = Nil
    /\ config = [Token |-> "", BaseURL |-> ""]
    /\ once = [done |-> FALSE, locked |-> FALSE]
    /\ gs = [g \in Goroutines |-> [pc |-> "idle", calls |-> 0, got |-> Nil]]
    /\ loads = 0
    /\ client = Nil
    /\ cmd = Nil
    /\ ClientIdle
    /\ AdaptersIdle
    /\ ParseIdle
    /\ FormatIdle

NextOnce ==
    \E g \in Goroutines :
        \/ GetConfig(g)
        \/ OnceDo(g)
        \/ OnceLock(g)
        \/ NewConfig(g)
        \/ InstanceLoad(g)
        \/ OnceStore(g)
        \/ OnceUnlock(g)
        \/ GetConfigReturn(g)

SpecOnce == InitOnce /\ [][NextOnce]_vars

\* ------------------------------------- the library: client and the setters
\* c.Save(), config.go:47-59: the file afterwards.  MkdirAll, Marshal or
\* WriteFile can fail (ok = FALSE), and then the file stays as it was.
Save(c, ok) == IF ok THEN Stored(c) ELSE file

\* A caller constructs a client (part_000:31-38).
MakeClient ==
    /\ pc \in {"idle", "returned"}
    /\ instance = Ptr
    /\ client' = NewClient
    /\ UNCHANGED <<clientVars, adapterVars, parseVars, formatVars, storeVars, cmd>>

\* The fields of the one Config become c and Save runs: the common part of
\* SetToken, SetBaseURL and Logout (config.go:61-78).
SetAndSave(c, ok) ==
    /\ pc \in {"idle", "returned"}
    /\ instance = Ptr
    /\ config' = c
    /\ file' = Save(c, ok)
    /\ UNCHANGED <<env, instance, once, gs, loads, exceptStore>>

\* config.go:61-64, 66-69, 75-78.
SetToken(token, ok) == SetAndSave([config EXCEPT !.Token = token], ok)
SetBaseURL(url, ok) == SetAndSave([config EXCEPT !.BaseURL = url], ok)
Logout(ok) == SetAndSave([config EXCEPT !.Token = ""], ok)

\* What the server answers in the library runs: a success envelope with a
\* ticket, a failure envelope, and a body that is no JSON.
FewBodies ==
    {SuccessBody(TicketData),
     JObj([success |-> JBool(FALSE), message |-> JStr("denied")]),
     Malformed}

\* A process that has loaded its configuration from any config file and
\* constructed a client.
InitLib ==
    /\ file \in Files
    /\ config = Load([Token |-> "", BaseURL |-> DefaultBaseURL], file).c
    /\ env = [MIZBAN_API_TOKEN |-> ""]
    /\ instance = Ptr
    /\ once = [done |-> TRUE, locked |-> FALSE]
    /\ gs = [g \in Goroutines |-> [pc |-> "idle", calls |-> 0, got |-> Nil]]
    /\ loads = 1
    /\ CmdIdle
    /\ ClientIdle
    /\ AdaptersIdle
    /\ ParseIdle
    /\ FormatIdle

NextLib ==
    \/ MakeClient
    \/ \E t \in Tokens, ok \in BOOLEAN : SetToken(t, ok)
    \/ \E u \in {DefaultBaseURL, OtherBaseURL}, ok \in BOOLEAN : SetBaseURL(u, ok)
    \/ \E ok \in BOOLEAN : Logout(ok)
    \/ Get("/v1/support/tickets")
    \/ Post("/v1/support/tickets", TicketBody)
    \/ DoFails
    \/ \E s \in {200, 401}, b \in FewBodies : Respond(s, b, TRUE)

SpecLib == InitLib /\ [][NextLib]_vars

\* ------------------------------------------------------------ the commands
\* One client call of a command: the verb helper, the path as the source
\* writes it, and the body (Nil, or a map built from the flags).
Call(method, path, body) == [method |-> method, path |-> path, body |-> body]
FlagBody == [kind |-> "map", entries |-> [name |-> "v"]]

\* A command, by the name of the function that builds it: its client calls
\* in order; what it does with the error of json.Unmarshal(resp.Data, &x)
\* after the first call ("none": it does not decode, "strict": it returns
\* the error, "lenient": it returns nil); the kind of x; and what a lenient
\* command prints when the decode failed ("success", or the "raw" data).
Cmd(calls, decode, target, onfail) ==
    [calls |-> calls, decode |-> decode, target |-> target, onfail |-> onfail]

\* The commands of pkg/cli/auth/login.go.
Commands_login ==
       ("NewLoginCmd" :> Cmd(<<Call("GET", "/v1/auth/profile", Nil)>>, "lenient", "struct", "success"))
    @@ ("NewLogoutCmd" :> Cmd(<<>>, "none", "none", "error"))
    @@ ("newProfileShowCmd" :> Cmd(<<Call("GET", "/v1/auth/profile", Nil)>>, "strict", "struct", "error"))
    @@ ("newProfileUpdateCmd" :> Cmd(<<Call("PUT", "/v1/auth/profile", FlagBody)>>, "none", "none", "error"))
    @@ ("newAPIKeyListCmd" :> Cmd(<<Call("GET", "/v1/auth/api-token", Nil)>>, "strict", "slice", "error"))
    @@ ("newAPIKeyCreateCmd" :> Cmd(<<Call("POST", "/v1/auth/api-token", FlagBody)>>, "strict", "struct", "error"))
    @@ ("newAPIKeyDeleteCmd" :> Cmd(<<Call("DELETE", "/v1/auth/api-token/%s", Nil)>>, "none", "none", "error"))
    @@ ("newDDoSStatusCmd" :> Cmd(<<Call("GET", "/v1/cdn/ng/domains/%d/ddos", Nil)>>, "strict", "struct", "error"))
    @@ ("newDDoSModeCmd" :> Cmd(<<Call("POST", "/v1/cdn/ng/domains/%d/ddos", FlagBody)>>, "none", "none", "error"))
    @@ ("newDDoSCaptchaCmd" :> Cmd(<<Call("POST", "/v1/cdn/ng/domains/%d/ddos/captcha-module", FlagBody)>>, "none", "none", "error"))
    @@ ("newDDoSCookieTTLCmd" :> Cmd(<<Call("POST", "/v1/cdn/ng/domains/%d/ddos/set-ttl/cookie", FlagBody)>>, "none", "none", "error"))
    @@ ("newDDoSJsTTLCmd" :> Cmd(<<Call("POST", "/v1/cdn/ng/domains/%d/ddos/set-ttl/js", FlagBody)>>, "none", "none", "error"))
    @@ ("newDDoSCaptchaTTLCmd" :> Cmd(<<Call("POST", "/v1/cdn/ng/domains/%d/ddos/set-ttl/captcha", FlagBody)>>, "none", "none", "error"))

\* The commands of pkg/cli/cdn/cache.go.
Commands_cache ==
       ("newCacheStatusCmd" :> Cmd(<<Call("GET", "/v1/cdn/ng/domains/%d/cache", Nil)>>, "strict", "struct", "error"))
    @@ ("newCacheModeCmd" :> Cmd(<<Call("POST", "/v1/cdn/ng/domains/%d/cache/edge/change-mode", FlagBody)>>, "none", "none", "error"))
    @@ ("newCacheAlwaysOnlineCmd" :> Cmd(<<Call("POST", "/v1/cdn/ng/domains/%d/cache/edge/always-online", FlagBody)>>, "none", "none", "error"))
    @@ ("newCacheCookiesCmd" :> Cmd(<<Call("POST", "/v1/cdn/ng/domains/%d/cache/edge/cache-cookies", FlagBody)>>, "none", "none", "error"))
    @@ ("newCachePurgeCmd" :> Cmd(<<Call("POST", "/v1/cdn/ng/domains/%d/cache/edge/purge-cache", FlagBody)>>, "none", "none", "error"))
    @@ ("newCacheTTLCmd" :> Cmd(<<Call("POST", "/v1/cdn/ng/domains/%d/cache/edge/change-ttl", FlagBody)>>, "none", "none", "error"))
    @@ ("newCacheBrowserCmd" :> Cmd(<<Call("POST", "/v1/cdn/ng/domains/%d/cache/browser/change-mode", FlagBody)>>, "none", "none", "error"))
    @@ ("newCacheMinifyCmd" :> Cmd(<<Call("POST", "/v1/cdn/ng/domains/%d/acceleration/assets/minify", FlagBody)>>, "none", "none", "error"))
    @@ ("newCacheErrorsTTLCmd" :> Cmd(<<Call("POST", "/v1/cdn/ng/domains/%d/cache/errors/cache-ttl", FlagBody)>>, "none", "none", "error"))
    @@ ("newCacheImageWebpCmd" :> Cmd(<<Call("POST", "/v1/cdn/ng/domains/%d/acceleration/images/optimize", FlagBody)>>, "none", "none", "error"))
    @@ ("newCacheImageResizeCmd" :> Cmd(<<Call("POST", "/v1/cdn/ng/domains/%d/acceleration/images/resize", FlagBody)>>, "none", "none", "error"))
    @@ ("newCacheDeveloperModeCmd" :> Cmd(<<Call("POST", "/v1/cdn/ng/domains/%d/cache/edge/developer-mode", FlagBody)>>, "none", "none", "error"))

\* The commands of pkg/cli/cdn/dns.go.
Commands_dns ==
       ("newDNSListCmd" :> Cmd(<<Call("GET", "/v1/cdn/ng/domains/%d/dns", Nil)>>, "strict", "slice", "error"))
    @@ ("newDNSGetCmd" :> Cmd(<<Call("GET", "/v1/cdn/ng/domains/%d/dns/%s", Nil)>>, "strict", "struct", "error"))
    @@ ("newDNSProxiableCmd" :> Cmd(<<Call("GET", "/v1/cdn/ng/domains/%d/dns/proxiable", Nil)>>, "strict", "slice", "error"))
    @@ ("newDNSAddCmd" :> Cmd(<<Call("POST", "/v1/cdn/ng/domains/%d/dns", FlagBody)>>, "strict", "struct", "error"))
    @@ ("newDNSUpdateCmd" :> Cmd(<<Call("PUT", "/v1/cdn/ng/domains/%d/dns/%d", FlagBody)>>, "none", "none", "error"))
    @@ ("newDNSDeleteCmd" :> Cmd(<<Call("DELETE", "/v1/cdn/ng/domains/%d/dns/%s", Nil)>>, "none", "none", "error"))
    @@ ("newDNSImportCmd" :> Cmd(<<Call("POST", "/v1/cdn/ng/domains/%d/dns/import", FlagBody)>>, "none", "none", "error"))
    @@ ("newDNSExportCmd" :> Cmd(<<Call("GET", "/v1/cdn/ng/domains/%d/dns/export", Nil)>>, "strict", "struct", "error"))
    @@ ("newDNSFetchRecordsCmd" :> Cmd(<<Call("POST", "/v1/cdn/ng/domains/%d/dns/fetch-records", Nil)>>, "lenient", "struct", "success"))
    @@ ("newDNSCustomNSGetCmd" :> Cmd(<<Call("GET", "/v1/cdn/ng/domains/%d/dns/custom-ns", Nil)>>, "lenient", "struct", "raw"))
    @@ ("newDNSCustomNSSetCmd" :> Cmd(<<Call("POST", "/v1/cdn/ng/domains/%d/dns/custom-ns", FlagBody)>>, "none", "none", "error"))
    @@ ("newDNSCustomNSDeleteCmd" :> Cmd(<<Call("DELETE", "/v1/cdn/ng/domains/%d/dns/custom-ns", Nil)>>, "none", "none", "error"))
    @@ ("newDNSSECStatusCmd" :> Cmd(<<Call("GET", "/v1/cdn/ng/domains/%d/dns/dnssec", Nil)>>, "lenient", "struct", "raw"))
    @@ ("newDNSSECEnableCmd" :> Cmd(<<Call("POST", "/v1/cdn/ng/domains/%d/dns/dnssec", FlagBody)>>, "lenient", "struct", "success"))
    @@ ("newDNSSECDisableCmd" :> Cmd(<<Call("POST", "/v1/cdn/ng/domains/%d/dns/dnssec", FlagBody)>>, "none", "none", "error"))

\* The commands of pkg/cli/cdn/logforwarder.go.
Commands_logforwarder ==
       ("newLogForwarderListCmd" :> Cmd(<<Call("GET", "/v1/cdn/ng/domains/%d/log-forwarders", Nil)>>, "strict", "slice", "error"))
    @@ ("newLogForwarderAddCmd" :> Cmd(<<Call("POST", "/v1/cdn/ng/domains/%d/log-forwarders", FlagBody)>>, "lenient", "struct", "success"))
    @@ ("newLogForwarderUpdateCmd" :> Cmd(<<Call("PUT", "/v1/cdn/ng/domains/%d/log-forwarders/%d", FlagBody)>>, "none", "none", "error"))
    @@ ("newLogForwarderDeleteCmd" :> Cmd(<<Call("DELETE", "/v1/cdn/ng/domains/%d/log-forwarders/%s", Nil)>>, "none", "none", "error"))

\* The commands of pkg/cli/cdn/plans.go.
Commands_plans ==
       ("newPlansListCmd" :> Cmd(<<Call("GET", "/v1/cdn/ng/plans", Nil)>>, "strict", "slice", "error"))

\* The commands of pkg/cli/cli.go.
Commands_cli ==
       ("NewRootCmd" :> Cmd(<<>>, "none", "none", "error"))

\* The commands of pkg/cli/cloud/firewall.go.
Commands_firewall ==
       ("newFirewallListCmd" :> Cmd(<<Call("GET", "/v1/cloud/firewall", Nil)>>, "strict", "slice", "error"))
    @@ ("newFirewallCreateCmd" :> Cmd(<<Call("POST", "/v1/cloud/firewall", FlagBody)>>, "strict", "struct", "error"))
    @@ ("newFirewallDeleteCmd" :> Cmd(<<Call("DELETE", "/v1/cloud/firewall/%s", Nil)>>, "none", "none", "error"))
    @@ ("newFirewallRuleAddCmd" :> Cmd(<<Call("POST", "/v1/cloud/firewall/rule", FlagBody)>>, "none", "none", "error"))
    @@ ("newFirewallRuleDeleteCmd" :> Cmd(<<Call("DELETE", "/v1/cloud/firewall/rule/%s", Nil)>>, "none", "none", "error"))
    @@ ("newFirewallAttachCmd" :> Cmd(<<Call("POST", "/v1/cloud/firewall/attach", FlagBody)>>, "none", "none", "error"))
    @@ ("newFirewallDetachCmd" :> Cmd(<<Call("POST", "/v1/cloud/firewall/detach", FlagBody)>>, "none", "none", "error"))

\* The commands of pkg/cli/cloud/network.go.
Commands_network ==
       ("newNetworkListCmd" :> Cmd(<<Call("GET", "/v1/cloud/private-networks", Nil)>>, "strict", "slice", "error"))
    @@ ("newNetworkCreateCmd" :> Cmd(<<Call("POST", "/v1/cloud/private-networks", FlagBody)>>, "strict", "struct", "error"))
    @@ ("newNetworkDeleteCmd" :> Cmd(<<Call("DELETE", "/v1/cloud/private-networks/%s", Nil)>>, "none", "none", "error"))
    @@ ("newNetworkAttachCmd" :> Cmd(<<Call("POST", "/v1/cloud/private-networks/attach", FlagBody)>>, "none", "none", "error"))
    @@ ("newNetworkDetachCmd" :> Cmd(<<Call("POST", "/v1/cloud/private-networks/detach", FlagBody)>>, "none", "none", "error"))

\* The commands of pkg/cli/cloud/server.go.
Commands_server ==
       ("newServerListCmd" :> Cmd(<<Call("GET", "/v1/cloud/servers", Nil)>>, "strict", "slice", "error"))
    @@ ("newServerCreateCmd" :> Cmd(<<Call("POST", "/v1/cloud/servers", FlagBody)>>, "strict", "struct", "error"))
    @@ ("newServerGetCmd" :> Cmd(<<Call("GET", "/v1/cloud/servers/%s", Nil)>>, "strict", "struct", "error"))
    @@ ("newServerDeleteCmd" :> Cmd(<<Call("DELETE", "/v1/cloud/servers/%s", Nil)>>, "none", "none", "error"))
    @@ ("newServerPowerCmd:on" :> Cmd(<<Call("PUT", "/v1/cloud/servers/%s/power/on", Nil)>>, "none", "none", "error"))
    @@ ("newServerPowerCmd:off" :> Cmd(<<Call("PUT", "/v1/cloud/servers/%s/power/off", Nil)>>, "none", "none", "error"))
    @@ ("newServerPowerCmd:reboot" :> Cmd(<<Call("PUT", "/v1/cloud/servers/%s/power/reboot", Nil)>>, "none", "none", "error"))
    @@ ("newServerPowerCmd:restart" :> Cmd(<<Call("PUT", "/v1/cloud/servers/%s/power/restart", Nil)>>, "none", "none", "error"))
    @@ ("newServerRenameCmd" :> Cmd(<<Call("POST", "/v1/cloud/servers/%s/rename", FlagBody)>>, "none", "none", "error"))
    @@ ("newServerVNCCmd" :> Cmd(<<Call("GET", "/v1/cloud/servers/%s/access/vnc", Nil)>>, "strict", "struct", "error"))
    @@ ("newServerLogsCmd" :> Cmd(<<Call("GET", "/v1/cloud/servers/%s/logs", Nil)>>, "strict", "slice", "error"))
    @@ ("newServerReportsCmd" :> Cmd(<<Call("GET", "/v1/cloud/servers/%s/reports", Nil)>>, "none", "none", "error"))
    @@ ("newServerRebuildCmd" :> Cmd(<<Call("PUT", "/v1/cloud/servers/%s/rebuild/software", FlagBody)>>, "none", "none", "error"))
    @@ ("newServerRescueCmd:rescue" :> Cmd(<<Call("POST", "/v1/cloud/servers/%s/rescue", Nil)>>, "none", "none", "error"))
    @@ ("newServerRescueCmd:unrescue" :> Cmd(<<Call("POST", "/v1/cloud/servers/%s/unrescue", Nil)>>, "none", "none", "error"))
    @@ ("newSnapshotListCmd" :> Cmd(<<Call("GET", "/v1/cloud/snapshots", Nil)>>, "strict", "slice", "error"))
    @@ ("newSnapshotCreateCmd" :> Cmd(<<Call("POST", "/v1/cloud/snapshots", FlagBody)>>, "strict", "struct", "error"))
    @@ ("newSnapshotGetCmd" :> Cmd(<<Call("GET", "/v1/cloud/snapshots/%s", Nil)>>, "strict", "struct", "error"))
    @@ ("newSnapshotDeleteCmd" :> Cmd(<<Call("DELETE", "/v1/cloud/snapshots/%s", Nil)>>, "none", "none", "error"))
    @@ ("newVolumeListCmd" :> Cmd(<<Call("GET", "/v1/cloud/volumes", Nil)>>, "strict", "slice", "error"))
    @@ ("newVolumeCreateCmd" :> Cmd(<<Call("POST", "/v1/cloud/volumes", FlagBody)>>, "strict", "struct", "error"))
    @@ ("newVolumeGetCmd" :> Cmd(<<Call("GET", "/v1/cloud/volumes/%s", Nil)>>, "strict", "struct", "error"))
    @@ ("newVolumeDeleteCmd" :> Cmd(<<Call("DELETE", "/v1/cloud/volumes/%s", Nil)>>, "none", "none", "error"))
    @@ ("newVolumeAttachCmd" :> Cmd(<<Call("POST", "/v1/cloud/volumes/attach", FlagBody)>>, "none", "none", "error"))
    @@ ("newVolumeDetachCmd" :> Cmd(<<Call("POST", "/v1/cloud/volumes/detach", FlagBody)>>, "none", "none", "error"))
    @@ ("newVolumeResizeCmd" :> Cmd(<<Call("PUT", "/v1/cloud/volumes/%s", FlagBody)>>, "none", "none", "error"))
    @@ ("newSSHListCmd" :> Cmd(<<Call("GET", "/v1/cloud/ssh", Nil)>>, "strict", "slice", "error"))
    @@ ("newSSHAddCmd" :> Cmd(<<Call("POST", "/v1/cloud/ssh", FlagBody)>>, "strict", "struct", "error"))
    @@ ("newSSHGetCmd" :> Cmd(<<Call("GET", "/v1/cloud/ssh/%s", Nil)>>, "strict", "struct", "error"))
    @@ ("newSSHDeleteCmd" :> Cmd(<<Call("DELETE", "/v1/cloud/ssh/%s", Nil)>>, "none", "none", "error"))
    @@ ("newSSHGenerateCmd" :> Cmd(<<Call("GET", "/v1/cloud/ssh/random", Nil)>>, "strict", "struct", "error"))

\* The commands of pkg/cli/ticket/ticket.go.
Commands_ticket ==
       ("newTicketListCmd" :> Cmd(<<Call("GET", "/v1/support/tickets", Nil)>>, "strict", "slice", "error"))
    @@ ("newTicketCreateCmd" :> Cmd(<<Call("POST", "/v1/support/tickets", FlagBody)>>, "strict", "struct", "error"))
    @@ ("newTicketGetCmd" :> Cmd(<<Call("GET", "/v1/support/tickets/%s", Nil)>>, "strict", "struct", "error"))
    @@ ("newTicketReplyCmd" :> Cmd(<<Call("POST", "/v1/support/tickets/%s/replies", FlagBody)>>, "none", "none", "error"))
    @@ ("newTicketCloseCmd" :> Cmd(<<Call("POST", "/v1/support/tickets/%s/status", FlagBody)>>, "none", "none", "error"))
    @@ ("newTicketDepartmentsCmd" :> Cmd(<<Call("GET", "/v1/support/tickets/departments", Nil)>>, "strict", "slice", "error"))

\* The commands of unnamed/part_001.
Commands_part_001 ==
       ("newDomainListCmd" :> Cmd(<<Call("GET", "/v1/cdn/ng/domains", Nil)>>, "strict", "slice", "error"))
    @@ ("newDomainAddCmd" :> Cmd(<<Call("POST", "/v1/cdn/ng/domains", FlagBody)>>, "strict", "struct", "error"))
    @@ ("newDomainGetCmd" :> Cmd(<<Call("GET", "/v1/cdn/ng/domains/%s", Nil)>>, "strict", "struct", "error"))
    @@ ("newDomainDeleteCmd" :> Cmd(<<Call("DELETE", "/v1/cdn/ng/domains/%s", Nil)>>, "none", "none", "error"))
    @@ ("newDomainUsageCmd" :> Cmd(<<Call("GET", "/v1/cdn/ng/domains/%s/usage", Nil)>>, "strict", "struct", "error"))
    @@ ("newDomainWhoisCmd" :> Cmd(<<Call("GET", "/v1/cdn/ng/domains/%s/whois", Nil)>>, "lenient", "struct", "raw"))
    @@ ("newDomainReportsCmd" :> Cmd(<<Call("POST", "/v1/cdn/ng/domains/%d/reports", FlagBody)>>, "lenient", "struct", "raw"))
    @@ ("newDomainRedirectModeCmd" :> Cmd(<<Call("POST", "/v1/cdn/ng/domains/%d/redirect-mode", FlagBody)>>, "none", "none", "error"))
    @@ ("newSSLInfoCmd" :> Cmd(<<Call("GET", "/v1/cdn/ng/domains/%d/https/ssl/get-info", Nil)>>, "lenient", "struct", "raw"))
    @@ ("newSSLAttachDefaultCmd" :> Cmd(<<Call("POST", "/v1/cdn/ng/domains/%d/https/attach-default", Nil)>>, "none", "none", "error"))
    @@ ("newSSLDetachDefaultCmd" :> Cmd(<<Call("POST", "/v1/cdn/ng/domains/%d/https/detach-default", Nil)>>, "none", "none", "error"))
    @@ ("newSSLStatusCmd" :> Cmd(<<Call("GET", "/v1/cdn/ng/domains/%d/https/ssl/get-configs", Nil)>>, "strict", "struct", "error"))
    @@ ("newSSLAttachCmd" :> Cmd(<<Call("POST", "/v1/cdn/ng/domains/%d/https/attach", FlagBody)>>, "none", "none", "error"))
    @@ ("newSSLDetachCmd" :> Cmd(<<Call("POST", "/v1/cdn/ng/domains/%d/https/detach", FlagBody)>>, "none", "none", "error"))
    @@ ("newSSLListCmd" :> Cmd(<<Call("GET", "/v1/cdn/ng/domains/%d/https/ssl", Nil)>>, "strict", "slice", "error"))
    @@ ("newSSLRequestFreeCmd" :> Cmd(<<Call("POST", "/v1/cdn/ng/domains/%d/https/ssl/free", Nil)>>, "none", "none", "error"))
    @@ ("newSSLAddCustomCmd" :> Cmd(<<Call("POST", "/v1/cdn/ng/domains/%d/https/ssl/add", FlagBody)>>, "none", "none", "error"))
    @@ ("newSSLDeleteCmd" :> Cmd(<<Call("DELETE", "/v1/cdn/ng/domains/%d/https/ssl/%s", Nil)>>, "none", "none", "error"))
    @@ ("newSSLTLSVersionCmd" :> Cmd(<<Call("POST", "/v1/cdn/ng/domains/%d/https/ssl/tls-version", FlagBody)>>, "none", "none", "error"))
    @@ ("newSSLHSTSCmd" :> Cmd(<<Call("POST", "/v1/cdn/ng/domains/%d/https/hsts", FlagBody)>>, "none", "none", "error"))
    @@ ("newSSLRedirectCmd" :> Cmd(<<Call("POST", "/v1/cdn/ng/domains/%d/https/redirect", FlagBody)>>, "none", "none", "error"))
    @@ ("newSSLBackendProtocolCmd" :> Cmd(<<Call("POST", "/v1/cdn/ng/domains/%d/https/backend-protocol", FlagBody)>>, "none", "none", "error"))
    @@ ("newSSLH3Cmd" :> Cmd(<<Call("POST", "/v1/cdn/ng/domains/%d/https/h3", FlagBody)>>, "none", "none", "error"))
    @@ ("newSSLCSPOverrideCmd" :> Cmd(<<Call("POST", "/v1/cdn/ng/domains/%d/https/csp-override", FlagBody)>>, "none", "none", "error"))
    @@ ("newClusterListCmd" :> Cmd(<<Call("GET", "/v1/cdn/ng/domains/%d/cluster", Nil)>>, "strict", "slice", "error"))
    @@ ("newClusterAssignmentsCmd" :> Cmd(<<Call("GET", "/v1/cdn/ng/domains/%d/cluster/assignments", Nil)>>, "strict", "slice", "error"))
    @@ ("newClusterAddCmd" :> Cmd(<<Call("POST", "/v1/cdn/ng/domains/%d/cluster", FlagBody)>>, "strict", "struct", "error"))
    @@ ("newClusterUpdateCmd" :> Cmd(<<Call("PUT", "/v1/cdn/ng/domains/%d/cluster/%d", FlagBody)>>, "none", "none", "error"))
    @@ ("newClusterDeleteCmd" :> Cmd(<<Call("DELETE", "/v1/cdn/ng/domains/%d/cluster/%d", Nil)>>, "none", "none", "error"))
    @@ ("newClusterServerAddCmd" :> Cmd(<<Call("POST", "/v1/cdn/ng/domains/%d/cluster/%d/servers", FlagBody)>>, "none", "none", "error"))
    @@ ("newClusterServerDeleteCmd" :> Cmd(<<Call("DELETE", "/v1/cdn/ng/domains/%d/cluster/%d/servers/%d", Nil)>>, "none", "none", "error"))
    @@ ("newClusterAssignCmd" :> Cmd(<<Call("POST", "/v1/cdn/ng/domains/%d/cluster/%d/assign", FlagBody)>>, "none", "none", "error"))
    @@ ("newClusterUnassignCmd" :> Cmd(<<Call("DELETE", "/v1/cdn/ng/domains/%d/cluster/%d/assign/%d", Nil)>>, "none", "none", "error"))

\* The commands of unnamed/part_002.
Commands_part_002 ==
       ("newCustomPagesGetCmd" :> Cmd(<<Call("GET", "/v1/cdn/ng/domains/%d/custom-pages", Nil)>>, "strict", "struct", "error"))
    @@ ("newCustomPagesSetCmd" :> Cmd(<<Call("POST", "/v1/cdn/ng/domains/%d/custom-pages", FlagBody)>>, "none", "none", "error"))
    @@ ("newCustomPagesDeleteCmd" :> Cmd(<<Call("DELETE", "/v1/cdn/ng/domains/%d/custom-pages", Nil)>>, "none", "none", "error"))
    @@ ("newRateLimitStatusCmd" :> Cmd(<<Call("GET", "/v1/cdn/ng/domains/%d/ratelimit", Nil)>>, "strict", "struct", "error"))
    @@ ("newRateLimitSetCmd" :> Cmd(<<Call("POST", "/v1/cdn/ng/domains/%d/ratelimit", FlagBody)>>, "none", "none", "error"))
    @@ ("newRateLimitEnableCmd" :> Cmd(<<Call("POST", "/v1/cdn/ng/domains/%d/ratelimit", FlagBody)>>, "none", "none", "error"))
    @@ ("newRateLimitDisableCmd" :> Cmd(<<Call("GET", "/v1/cdn/ng/domains/%d/ratelimit", Nil), Call("POST", "/v1/cdn/ng/domains/%d/ratelimit", FlagBody)>>, "strict", "struct", "error"))

\* The commands of unnamed/part_003.
Commands_part_003 ==
       ("newPageRulesListCmd" :> Cmd(<<Call("GET", "/v1/cdn/ng/domains/%d/paths", Nil)>>, "strict", "slice", "error"))
    @@ ("newPageRulesAddPathCmd" :> Cmd(<<Call("POST", "/v1/cdn/ng/domains/%d/paths", FlagBody)>>, "lenient", "struct", "success"))
    @@ ("newPageRulesDeletePathCmd" :> Cmd(<<Call("DELETE", "/v1/cdn/ng/domains/%d/paths/%s", Nil)>>, "none", "none", "error"))
    @@ ("newPageRulesSetCmd" :> Cmd(<<Call("POST", "/v1/cdn/ng/domains/%d/paths/%d/rules", FlagBody)>>, "none", "none", "error"))
    @@ ("newPageRulesDeleteRuleCmd" :> Cmd(<<Call("DELETE", "/v1/cdn/ng/domains/%d/paths/%d/rules/%s", Nil)>>, "none", "none", "error"))
    @@ ("newFirewallStatusCmd" :> Cmd(<<Call("GET", "/v1/cdn/ng/domains/%d/firewall", Nil)>>, "strict", "struct", "error"))
    @@ ("newFirewallAddIPCmd" :> Cmd(<<Call("POST", "/v1/cdn/ng/domains/%d/firewall", FlagBody)>>, "none", "none", "error"))
    @@ ("newFirewallRemoveIPCmd" :> Cmd(<<Call("POST", "/v1/cdn/ng/domains/%d/firewall", FlagBody)>>, "none", "none", "error"))
    @@ ("newFirewallAddCountryCmd" :> Cmd(<<Call("POST", "/v1/cdn/ng/domains/%d/firewall", FlagBody)>>, "none", "none", "error"))
    @@ ("newFirewallRemoveCountryCmd" :> Cmd(<<Call("POST", "/v1/cdn/ng/domains/%d/firewall", FlagBody)>>, "none", "none", "error"))
    @@ ("newWAFStatusCmd" :> Cmd(<<Call("GET", "/v1/cdn/ng/domains/%d/waf", Nil)>>, "strict", "struct", "error"))
    @@ ("newWAFEnableCmd" :> Cmd(<<Call("PUT", "/v1/cdn/ng/domains/%d/waf", FlagBody)>>, "none", "none", "error"))
    @@ ("newWAFDisableCmd" :> Cmd(<<Call("PUT", "/v1/cdn/ng/domains/%d/waf", FlagBody)>>, "none", "none", "error"))
    @@ ("newWAFLayersCmd" :> Cmd(<<Call("GET", "/v1/cdn/ng/domains/%d/waf/layers", Nil)>>, "strict", "slice", "error"))
    @@ ("newWAFRulesListCmd" :> Cmd(<<Call("GET", "/v1/cdn/ng/domains/%d/waf/rules", Nil)>>, "strict", "slice", "error"))
    @@ ("newWAFRulesDisabledCmd" :> Cmd(<<Call("GET", "/v1/cdn/ng/domains/%d/waf/disabled-rules", Nil)>>, "strict", "slice", "error"))
    @@ ("newWAFRuleToggleCmd" :> Cmd(<<Call("PUT", "/v1/cdn/ng/domains/%d/waf/switch-rule", FlagBody)>>, "none", "none", "error"))
    @@ ("newWAFGroupToggleCmd" :> Cmd(<<Call("PUT", "/v1/cdn/ng/domains/%d/waf/switch-group", FlagBody)>>, "none", "none", "error"))
    @@ ("newWAFBlockIPCmd" :> Cmd(<<Call("POST", "/v1/cdn/ng/domains/%d/firewall", FlagBody)>>, "none", "none", "error"))
    @@ ("newWAFUnblockIPCmd" :> Cmd(<<Call("POST", "/v1/cdn/ng/domains/%d/firewall", FlagBody)>>, "none", "none", "error"))
    @@ ("newWAFBlockCountryCmd" :> Cmd(<<Call("POST", "/v1/cdn/ng/domains/%d/firewall", FlagBody)>>, "none", "none", "error"))
    @@ ("newWAFUnblockCountryCmd" :> Cmd(<<Call("POST", "/v1/cdn/ng/domains/%d/firewall", FlagBody)>>, "none", "none", "error"))

Commands ==
       Commands_login
    @@ Commands_cache
    @@ Commands_dns
    @@ Commands_logforwarder
    @@ Commands_plans
    @@ Commands_cli
    @@ Commands_firewall
    @@ Commands_network
    @@ Commands_server
    @@ Commands_ticket
    @@ Commands_part_001
    @@ Commands_part_002
    @@ Commands_part_003

CommandNames == DOMAIN Commands

\* json.Unmarshal(resp.Data, &x), x a struct or a slice of structs: data
\* that is missing is an error, null decodes to the zero value, and else
\* the value has to be an object, or an array of objects.  The payloads
\* drawn for commands hit no declared field, so only the shape counts.
NoFields == [k \in {} |-> "int"]
Unmarshal(target, data) ==
    IF target = "struct" THEN UnmarshalStruct(NoFields, data).err
    ELSE IF data = Nil \/ ~WellFormed(data) THEN Error("unexpected end of JSON input")
    ELSE IF data.kind = "null" THEN Nil
    ELSE IF data.kind # "array"
    THEN Error("json: cannot unmarshal " \o data.kind \o " into Go value of type slice")
    ELSE IF \E i \in 1..Len(data.elems) : UnmarshalStruct(NoFields, data.elems[i]).err # Nil
    THEN Error("json: cannot unmarshal array element into Go value of type struct")
    ELSE Nil

\* type RateLimitSettings (part_002:173-183): the Go type of each member.
RateLimitSettings ==
    [domain_id |-> "int", enabled |-> "NumericBool", limit |-> "int", block |-> "int",
     allow_methods |-> "[]string", whitelist |-> "[]string",
     allow_countries |-> "[]string", created_at |-> "string", updated_at |-> "string"]

\* The element type of the keys 'profile api-keys list' decodes
\* (login.go:233-238).
APIKey == [id |-> "int", name |-> "string", token |-> "string", created_at |-> "string"]

\* json.Unmarshal(resp.Data, &xs), xs a slice of structs: null leaves the
\* slice nil, an array is decoded element by element, anything else is an
\* error.
UnmarshalSlice(fields, data) ==
    IF data = Nil \/ ~WellFormed(data)
    THEN [err |-> Error("unexpected end of JSON input"), val |-> << >>]
    ELSE IF data.kind = "null" THEN [err |-> Nil, val |-> << >>]
    ELSE IF data.kind # "array"
    THEN [err |-> Error("json: cannot unmarshal " \o data.kind
                         \o " into Go value of type slice"),
          val |-> << >>]
    ELSE
      LET e(i) == UnmarshalStruct(fields, data.elems[i])
          bad == {i \in 1..Len(data.elems) : e(i).err # Nil}
      IN  [err |-> IF bad = {} THEN Nil ELSE e(CHOOSE i \in bad : TRUE).err,
           val |-> [i \in 1..Len(data.elems) |-> e(i).val]]

\* json.Unmarshal(resp.Data, &x) of a command: 'ratelimit disable' keeps
\* the settings it decoded (part_002:384-387) and 'profile api-keys list'
\* its keys (login.go:239-241); of the other commands only the error
\* matters.
Decode(fn, target, data) ==
    IF fn = "newRateLimitDisableCmd" THEN UnmarshalStruct(RateLimitSettings, data)
    ELSE IF fn = "newAPIKeyListCmd" THEN UnmarshalSlice(APIKey, data)
    ELSE [err |-> Unmarshal(target, data), val |-> Nil]

\* A run-time panic: the process prints the message and a stack trace and
\* dies; RunE does not return.
Panic(msg) == [kind |-> "panic", msg |-> msg]

\* s[:n] on a Go string: a panic when the string is shorter than n.
SliceTo(s, n) ==
    IF Len(s) < n THEN Panic("slice bounds out of range") ELSE GoString(SubSeq(s, 1, n))

\* What a command does with the value it decoded before it returns nil.
\* 'profile api-keys list' prints "No API keys found" for an empty list and
\* else, for every key, key.Token[:20]+"..." (login.go:243-252); the other
\* commands print without slicing.
Printed(c, val) ==
    IF c.fn = "newAPIKeyListCmd"
          /\ \E i \in 1..Len(val) : SliceTo(val[i].token.s, 20).kind = "panic"
    THEN [c EXCEPT !.phase = "done", !.out = "panic", !.val = val,
                   !.exit = Panic("slice bounds out of range")]
    ELSE [c EXCEPT !.phase = "done", !.out = "success", !.val = val]

\* A command that has just been invoked with these flags and answers:
\* nothing sent, nothing printed, no response (resp) and no decoded value
\* (val) yet.
CmdWith(fn, args) ==
    [kind |-> "cmd", fn |-> fn, args |-> args, step |-> 1, phase |-> "run",
     sent |-> << >>, out |-> "none", exit |-> Nil, callErr |-> Nil, decodeErr |-> Nil,
     resp |-> Nil, val |-> Nil]
NewCmd(fn) == CmdWith(fn, Nil)

\* Mutant: every command makes each of its calls twice.
RequestsOf_Twice(shape) == shape.calls \o shape.calls

\* The client calls a command makes, in order.
RequestsOf(shape) == shape.calls

\* Mutant: every command persists the configuration once its call succeeded.
SavesConfig_Every(fn) == TRUE

\* Only login calls cfg.Save() after its request (login.go:57).
SavesConfig(fn) == fn = "NewLoginCmd"

\* Mutant: the error of a client call is dropped and the command goes on.
AfterCallError_Continue(c, err) ==
    IF c.step < Len(RequestsOf(Commands[c.fn]))
    THEN [c EXCEPT !.callErr = err, !.step = @ + 1]
    ELSE [c EXCEPT !.callErr = err, !.phase = "done", !.out = "success"]

\* if err != nil { return err } after every client call (login wraps it:
\* login.go:53-55); nothing is printed.
AfterCallError(c, err) ==
    [c EXCEPT !.callErr = err, !.phase = "done",
              !.exit = IF c.fn = "NewLoginCmd"
                       THEN Error("login failed: " \o err.msg) ELSE err]

\* Mutant: no command returns a decode error.
OnDecodeError_Lenient(c, shape, err) ==
    [c EXCEPT !.decodeErr = err, !.phase = "done", !.out = "success"]

\* The branch a command takes when json.Unmarshal(resp.Data, &x) failed:
\* a strict command returns the error (e.g. ticket.go:131-133), a lenient
\* one prints its success message or the raw data and returns nil (e.g.
\* dns.go:435-438, part_001:330-334).
OnDecodeError(c, shape, err) ==
    IF shape.decode = "strict"
    THEN [c EXCEPT !.decodeErr = err, !.phase = "done",
                   !.exit = Error("failed to parse: " \o err.msg)]
    ELSE [c EXCEPT !.decodeErr = err, !.phase = "done", !.out = shape.onfail]

\* The command after a call that returned an envelope: it decodes the data
\* of its first call if it decodes at all, then makes its next call, or
\* prints its result and returns nil.
AfterResponse(c, shape) ==
    LET d == IF shape.decode = "none" \/ c.step > 1 THEN [err |-> Nil, val |-> c.val]
             ELSE Decode(c.fn, shape.target, ret.resp.Data)
    IN  IF d.err # Nil THEN OnDecodeError(c, shape, d.err)
        ELSE IF c.step < Len(RequestsOf(shape))
        THEN [c EXCEPT !.step = @ + 1, !.resp = ret.resp, !.val = d.val]
        ELSE Printed(c, d.val)

\* login after its GET succeeded and the save was tried (login.go:57-73):
\* a failed save is returned; the profile is decoded only if there is data,
\* and the error of ParseData is dropped.
AfterLogin(c, ok) ==
    IF ~ok THEN [c EXCEPT !.phase = "done", !.exit = Error("failed to save config")]
    ELSE [c EXCEPT !.phase = "done", !.out = "success",
                   !.decodeErr = IF ret.resp.Data # Nil
                                 THEN ParseData("Profile", ret.resp).err ELSE Nil]

\* The flags and the standard input a command is run with.  Commands whose
\* flags decide nothing before the request are run with Nil.
\* The error codes custom-pages set and delete accept (part_002:99, 136).
validCodes == {403, 404, 500, 502, 503, 504}

\* The commands that ask before they delete unless --force is given.
ForceDeletes ==
    {"newServerDeleteCmd", "newVolumeDeleteCmd", "newSnapshotDeleteCmd",
     "newSSHDeleteCmd", "newFirewallDeleteCmd", "newNetworkDeleteCmd",
     "newDomainDeleteCmd", "newClusterDeleteCmd", "newClusterServerDeleteCmd",
     "newPageRulesDeletePathCmd", "newLogForwarderDeleteCmd"}

\* Lines typed at the confirmation prompt, as their words: nothing, one
\* word, two words.
AnswerLines == {<< >>, <<"yes">>, <<"y">>, <<"YES">>, <<"no">>, <<"yes", "please">>}

\* fmt.Scanln(&confirm) (server.go:207-208): the first space-separated word
\* of the line is stored; an empty line stores nothing, and the error for
\* further words is not looked at.
Scanln(line) == IF line = << >> THEN "" ELSE line[1]

\* Texts given as --settings and --config: an object, null, an array, a
\* string, and text that is no JSON.
FlagTexts ==
    {JObj([cache |-> JStr("on")]), JNull, JArr(<< >>), JStr("on"), Malformed}

\* json.Unmarshal([]byte(text), &m), m a map[string]interface{}
\* (part_003:204-205, logforwarder.go:113-114): an object fills the map, null
\* leaves it nil without an error, anything else is an error.
UnmarshalMap(text) ==
    IF ~WellFormed(text) THEN Error("invalid character")
    ELSE IF text.kind \in {"object", "null"} THEN Nil
    ELSE Error("json: cannot unmarshal " \o text.kind
               \o " into Go value of type map[string]interface {}")

\* Values of --domain, as the decimal text %d prints.
DomainIDs == {"7", "8"}

\* The inputs each command is run with.
ArgsOf(fn) ==
    CASE fn \in ForceDeletes ->
            {[kind |-> "args", force |-> f, stdin |-> l] :
                f \in BOOLEAN, l \in AnswerLines}
      [] fn \in {"newCustomPagesSetCmd", "newCustomPagesDeleteCmd"} ->
            {[kind |-> "args", domain |-> d, code |-> c] :
                d \in DomainIDs, c \in {0, 403, 418, 503}}
      [] fn = "newRateLimitDisableCmd" ->
            {[kind |-> "args", domain |-> d] : d \in DomainIDs}
      [] fn = "newProfileUpdateCmd" ->
            {[kind |-> "args", name |-> n, phone |-> ph] :
                n \in {"", "Sara"}, ph \in {"", "0912"}}
      [] fn = "newCachePurgeCmd" ->
            {[kind |-> "args", all |-> a, urls |-> u] :
                a \in BOOLEAN, u \in {<< >>, <<"/index.html">>}}
      [] fn = "newPageRulesSetCmd" ->
            {[kind |-> "args", settings |-> t] : t \in FlagTexts}
      [] fn = "newLogForwarderAddCmd" ->
            {[kind |-> "args", config |-> t] : t \in FlagTexts \cup {Nil}}
      [] fn = "newAPIKeyCreateCmd" ->
            {[kind |-> "args", name |-> n] : n \in {"", "ci"}}
      [] OTHER -> {Nil}

\* Mutant: no command checks its flags.
Validate_Nothing(fn, a) == Nil

\* The checks a command makes on its flags before it constructs the client
\* (part_002:99-102, 136-139; part_003:204-207; logforwarder.go:112-118, where
\* an empty --config is not decoded; login.go:266-268): the error returned,
\* or Nil.
Validate(fn, a) ==
    CASE fn \in {"newCustomPagesSetCmd", "newCustomPagesDeleteCmd"}
            /\ a.code \notin validCodes -> Error("invalid error code")
      [] fn = "newPageRulesSetCmd" /\ UnmarshalMap(a.settings) # Nil ->
            Error("invalid settings JSON: " \o UnmarshalMap(a.settings).msg)
      [] fn = "newLogForwarderAddCmd" /\ a.config # Nil /\ UnmarshalMap(a.config) # Nil ->
            Error("invalid config JSON: " \o UnmarshalMap(a.config).msg)
      [] fn = "newAPIKeyCreateCmd" /\ a.name = "" -> Error("name is required")
      [] OTHER -> Nil

\* The checks made while the body is built, after the client has been
\* constructed and before the request (login.go:181-191, cache.go:209-219).
ValidateBody(fn, a) ==
    CASE fn = "newProfileUpdateCmd" /\ a.name = "" /\ a.phone = "" ->
            Error("no fields to update")
      [] fn = "newCachePurgeCmd" /\ ~a.all /\ a.urls = << >> ->
            Error("specify --all or --url")
      [] OTHER -> Nil

\* Mutant: any answer that begins like "yes" confirms.
Confirms_Lax(fn, a) ==
    fn \in ForceDeletes => a.force \/ Scanln(a.stdin) \in {"yes", "y", "YES"}

\* if !force { ...; if confirm != "yes" { return nil } } (server.go:205-213):
\* whether the command goes on to its request.
Confirms(fn, a) ==
    fn \in ForceDeletes => a.force \/ Scanln(a.stdin) = "yes"

\* A command other than login and logout runs up to its first client call:
\* a flag check that fails ends it with the error, a confirmation that is
\* not given ends it with "Aborted" and nil, and else its RunE constructs
\* the client (e.g. ticket.go:116).  The root command only prints the help
\* (cli.go:19-21).
Invoke(fn, a) ==
    /\ cmd = Nil
    /\ fn \notin {"NewLoginCmd", "NewLogoutCmd"}
    /\ LET c == CmdWith(fn, a)
       IN  IF Validate(fn, a) # Nil
           THEN /\ cmd' = [c EXCEPT !.phase = "done", !.exit = Validate(fn, a)]
                /\ client' = client
           ELSE IF ~Confirms(fn, a)
           THEN /\ cmd' = [c EXCEPT !.phase = "done", !.out = "aborted"]
                /\ client' = client
           ELSE IF Commands[fn].calls = << >>
           THEN /\ cmd' = [c EXCEPT !.phase = "done"]
                /\ client' = client
           ELSE IF ValidateBody(fn, a) # Nil
           THEN /\ cmd' = [c EXCEPT !.phase = "done", !.exit = ValidateBody(fn, a)]
                /\ client' = NewClient
           ELSE /\ cmd' = c
                /\ client' = NewClient
    /\ UNCHANGED <<clientVars, adapterVars, parseVars, formatVars, storeVars>>

\* The flags of login, --token (or the token typed at the prompt) and --url
\* (login.go:18, 76-77).
LoginArgs(token, apiURL) == [kind |-> "args", token |-> token, url |-> apiURL]

\* login starts (login.go:25-51): --url replaces the base URL in memory, an
\* empty token ends the command, and else the token is set in memory and
\* the client constructed.
Login(token, apiURL) ==
    /\ cmd = Nil
    /\ LET c == [config EXCEPT !.BaseURL = IF apiURL # "" THEN apiURL ELSE @]
       IN  IF token = ""
           THEN /\ config' = c
                /\ client' = client
                /\ cmd' = [CmdWith("NewLoginCmd", LoginArgs(token, apiURL)) EXCEPT
                              !.phase = "done", !.exit = Error("token cannot be empty")]
           ELSE /\ config' = [c EXCEPT !.Token = token]
                /\ client' = [NewClient EXCEPT !.seen = [c EXCEPT !.Token = token]]
                /\ cmd' = CmdWith("NewLoginCmd", LoginArgs(token, apiURL))
    /\ UNCHANGED <<pc, call, wire, dispatched, reply, ret, adapterVars, parseVars,
                   formatVars,
                   storeVars>>

\* c.IsLoggedIn(), config.go:71-73.
IsLoggedIn(c) == c.Token # ""

\* Mutant: a Logout that leaves the token in place.
LoggedOut_Keep(c) == c

\* The fields after c.Logout() has cleared the token (config.go:76).
LoggedOut(c) == [c EXCEPT !.Token = ""]

\* logout (login.go:88-95): cfg.Logout() clears the token and saves.
LogoutCmd(ok) ==
    /\ cmd = Nil
    /\ config' = LoggedOut(config)
    /\ file' = Save(LoggedOut(config), ok)
    /\ cmd' = [NewCmd("NewLogoutCmd") EXCEPT
                  !.phase = "done",
                  !.out = IF ok THEN "success" ELSE "none",
                  !.exit = IF ok THEN Nil ELSE Error("failed to logout")]
    /\ UNCHANGED <<pc, call, wire, dispatched, reply, ret, adapterVars, parseVars,
                   formatVars,
                   env, instance, once, gs, loads, client>>

\* fmt.Sprintf(format, domainID) for the paths of the commands that are run
\* with a domain (part_002:142, 379, 398); the other paths stand as the
\* source writes them.
Sprintf(format, id) ==
    CASE format = "/v1/cdn/ng/domains/%d/custom-pages" ->
            "/v1/cdn/ng/domains/" \o id \o "/custom-pages"
      [] format = "/v1/cdn/ng/domains/%d/ratelimit" ->
            "/v1/cdn/ng/domains/" \o id \o "/ratelimit"
      [] OTHER -> format

\* Mutant: disable sends the defaults of 'ratelimit enable' (part_002:338-345).
DisableBody_Defaults(settings) ==
    [kind |-> "imap",
     entries |-> [mode |-> GoBool(FALSE), request_count |-> GoInt(100),
                  block_time |-> GoInt(60), methods |-> GoStrings(<< >>),
                  ips |-> GoStrings(<< >>), countries |-> GoStrings(<< >>)]]

\* The body 'ratelimit disable' posts (part_002:389-398), from the settings
\* its GET decoded.
DisableBody(settings) ==
    [kind |-> "imap",
     entries |-> [mode |-> GoBool(FALSE), request_count |-> settings.limit,
                  block_time |-> settings.block, methods |-> settings.allow_methods,
                  ips |-> settings.whitelist, countries |-> settings.allow_countries]]

\* The body 'custom-pages set' posts (part_002:105-108): the code and the
\* HTML given with --html.
CustomPageBody(a) ==
    [kind |-> "imap",
     entries |-> [error_code |-> GoInt(a.code), content |-> GoString("<h1>Maintenance</h1>")]]

\* The client call a command makes at its current step: the path is
\* formatted from the flags the source formats it from; the body of
\* 'custom-pages set' is built from its flags and that of the second call
\* of 'ratelimit disable' from the first answer.
CallOf(c) ==
    LET k == RequestsOf(Commands[c.fn])[c.step]
    IN  Call(k.method,
             IF c.args # Nil /\ "domain" \in DOMAIN c.args
             THEN Sprintf(k.path, c.args.domain) ELSE k.path,
             IF c.fn = "newRateLimitDisableCmd" /\ c.step = 2 THEN DisableBody(c.val)
             ELSE IF c.fn = "newCustomPagesSetCmd" THEN CustomPageBody(c.args)
             ELSE k.body)

\* The running command makes its next client call.
CmdRequest ==
    /\ cmd # Nil
    /\ cmd.phase = "run"
    /\ pc = "idle"
    /\ cmd.step <= Len(RequestsOf(Commands[cmd.fn]))
    /\ LET c == CallOf(cmd)
       IN  Request(c.method, c.path, c.body)

\* Mutant: login saves the configuration whether or not its request failed.
FileAfterCall_Always(fn, err, ok) == IF SavesConfig(fn) THEN Save(config, ok) ELSE file

\* The config file after a client call returned err: a command that saves
\* does so only after 'if err != nil { return }' (login.go:53-57).
FileAfterCall(fn, err, ok) ==
    IF err = Nil /\ SavesConfig(fn) THEN Save(config, ok) ELSE file

\* The client call has returned into the command; ok is whether a save,
\* where the command makes one, succeeds.
CmdHandle(ok) ==
    /\ cmd # Nil
    /\ cmd.phase = "run"
    /\ pc = "returned"
    /\ pc' = "idle"
    /\ LET c == [cmd EXCEPT !.sent = IF dispatched > 0
                                     THEN Append(@, call.method) ELSE @]
       IN  /\ file' = FileAfterCall(cmd.fn, ret.err, ok)
           /\ cmd' = IF ret.err # Nil THEN AfterCallError(c, ret.err)
                     ELSE IF cmd.fn = "NewLoginCmd" THEN AfterLogin(c, ok)
                     ELSE AfterResponse(c, Commands[cmd.fn])
    /\ UNCHANGED <<config, call, wire, dispatched, reply, ret, adapterVars, parseVars,
                   formatVars,
                   env, instance, once, gs, loads, client>>

\* The command has returned and the process ends; the next invocation is a
\* new process, which loads the configuration from the file.
Exit ==
    /\ cmd # Nil
    /\ cmd.phase = "done"
    /\ cmd' = Nil
    /\ client' = Nil
    /\ config' = Load([Token |-> "", BaseURL |-> DefaultBaseURL], file).c
    /\ pc' = "idle"
    /\ call' = Nil
    /\ wire' = Nil
    /\ dispatched' = 0
    /\ reply' = Nil
    /\ ret' = Nil
    /\ UNCHANGED <<adapterVars, parseVars, formatVars, storeVars>>

\* Config files and environments a process starts with: no file, a file a
\* login wrote, the file the README shows (key api_token); the variable
\* MIZBAN_API_TOKEN unset or set.
CmdFiles ==
    {NoFile, Stored([Token |-> "tok1", BaseURL |-> DefaultBaseURL]),
     YAML([api_token |-> "tok1", base_url |-> DefaultBaseURL])}
Envs == {[MIZBAN_API_TOKEN |-> ""], [MIZBAN_API_TOKEN |-> "tok2"]}

\* Rate-limit settings a server returns: all members set; lists empty or
\* null and a member missing; a limit that is no integer.
SettingsPayloads ==
    {JObj([enabled |-> JBool(TRUE), limit |-> JNum(FALSE, 2, 0),
           block |-> JNum(FALSE, 1, 0), allow_methods |-> JArr(<<JStr("GET")>>),
           whitelist |-> JArr(<<JStr("10.0.0.1"), JStr("10.0.0.2")>>),
           allow_countries |-> JArr(<<JStr("IR")>>)]),
     JObj([enabled |-> JNum(FALSE, 1, 0), limit |-> JNum(TRUE, 0, 0),
           allow_methods |-> JArr(<< >>), whitelist |-> JNull]),
     JObj([enabled |-> JBool(TRUE), limit |-> JStr("2")])}

\* Lists of API keys a server returns: one key with a token of 40
\* characters; a second key whose token has 8 characters; a key listed
\* without its token.
KeyPayloads ==
    LET key(t) == JObj([id |-> JNum(FALSE, 1, 0), name |-> JStr("ci"), token |-> JStr(t)])
    IN  {JArr(<<key("0123456789abcdef0123456789abcdef01234567")>>),
         JArr(<<key("0123456789abcdef0123456789abcdef01234567"), key("01234567")>>),
         JArr(<<JObj([id |-> JNum(FALSE, 2, 0), name |-> JStr("ci")])>>)}

\* What the server answers a command: success envelopes whose data is an
\* object, an array of objects, an empty array, a string, null or missing;
\* a failure envelope; a body that is no JSON.
CmdBodies ==
    {SuccessBody(d) : d \in {JObj([note |-> JStr("unknown member")]),
                             JArr(<<JObj([note |-> JStr("unknown member")])>>),
                             JArr(<< >>), JStr("unexpected"), JNull, Nil}
                       \cup SettingsPayloads \cup KeyPayloads}
        \cup {JObj([success |-> JBool(FALSE), message |-> JStr("denied")]), Malformed}

InitCmd ==
    /\ file \in CmdFiles
    /\ env \in Envs
    /\ config = Load([Token |-> "", BaseURL |-> DefaultBaseURL], file).c
    /\ instance = Ptr
    /\ once = [done |-> TRUE, locked |-> FALSE]
    /\ gs = [g \in Goroutines |-> [pc |-> "idle", calls |-> 0, got |-> Nil]]
    /\ loads = 1
    /\ client = Nil
    /\ cmd = Nil
    /\ ClientIdle
    /\ AdaptersIdle
    /\ ParseIdle
    /\ FormatIdle

NextCmd ==
    \/ \E fn \in CommandNames : \E a \in ArgsOf(fn) : Invoke(fn, a)
    \/ \E t \in {"", "tok1", "tok2"}, u \in {"", OtherBaseURL} : Login(t, u)
    \/ \E ok \in BOOLEAN : LogoutCmd(ok)
    \/ CmdRequest
    \/ DoFails
    \/ \E s \in {200, 401}, b \in CmdBodies : Respond(s, b, TRUE)
    \/ \E ok \in BOOLEAN : CmdHandle(ok)
    \/ Exit

SpecCmd == InitCmd /\ [][NextCmd]_vars

\* ------------------------------------------------------------ formatBytes
\* const unit = 1024 (part_001:292).
unit == 1024

\* An int64 in two's complement, as its seven digits to the base 1024 from
\* the lowest: six digits of 10 bits and a top digit of 4 bits, whose
\* highest bit is the sign.
Int64s(low, top) == {x \in [1..7 -> low \cup top] : x[7] \in top /\ \A i \in 1..6 : x[i] \in low}
MaxInt64 == [i \in 1..7 |-> IF i = 7 THEN 7 ELSE unit - 1]

\* int64(unit).
Unit64 == [i \in 1..7 |-> IF i = 2 THEN 1 ELSE 0]

\* x < unit: a negative value, or one with the lowest digit only.
LessThanUnit(x) == x[7] >= 8 \/ \A i \in 2..7 : x[i] = 0

\* x / unit for x >= 0: the digits move down by one.
DivUnit(x) == [i \in 1..7 |-> IF i < 7 THEN x[i + 1] ELSE 0]

\* x * unit in 64 bits: the digits move up by one, and what does not fit
\* the top digit's 4 bits is lost (Go wraps around silently).
MulUnit(x) == [i \in 1..7 |-> IF i = 1 THEN 0 ELSE IF i = 7 THEN x[6] % 16 ELSE x[i - 1]]

\* Mutant: a loop that goes on while n is not zero.
Continues_WhileNonZero(n) == \E i \in 1..7 : n[i] # 0

\* The condition of the loop, n >= unit (part_001:297).
Continues(n) == ~LessThanUnit(n)

\* The loop of part_001:297-300 from the values n, div and exp: the div and
\* exp it ends with.
RECURSIVE Scale(_, _, _)
Scale(n, div, exp) ==
    IF Continues(n) THEN Scale(DivUnit(n), MulUnit(div), exp + 1)
    ELSE [div |-> div, exp |-> exp]

\* s[i] on a Go string, i counted from 0: a panic outside the string.
IndexByte(s, i) ==
    IF i < 0 \/ i >= Len(s) THEN Panic("index out of range") ELSE GoString(SubSeq(s, i + 1, i + 1))

\* formatBytes(bytes), part_001:291-301: below unit the bytes themselves,
\* else bytes divided by div with the letter of the unit; the text is kept
\* as the operands of Sprintf.
formatBytes(bytes) ==
    IF LessThanUnit(bytes)
    THEN [kind |-> "text", format |-> "%d B", value |-> bytes]
    ELSE LET r == Scale(DivUnit(bytes), Unit64, 0)
             c == IndexByte("KMGTPE", r.exp)
         IN  IF c.kind = "panic" THEN c
             ELSE [kind |-> "text", format |-> "%.2f %cB", value |-> bytes,
                   div |-> r.div, exp |-> r.exp, letter |-> c.s]

\* The byte counts formatBytes is called with: every digit 0, 1 or the
\* highest, the top digit 0, 1, 7 (positive), 8 or 15 (negative).
ByteCounts == Int64s({0, 1, unit - 1}, {0, 1, 7, 8, 15})

\* formatBytes returns.
FormatBytes ==
    /\ fb # Nil
    /\ fb.out = Nil
    /\ fb' = [fb EXCEPT !.out = formatBytes(fb.bytes)]
    /\ UNCHANGED <<clientVars, adapterVars, parseVars, storeVars, cmdVars>>

InitFormat ==
    /\ config = [Token |-> "tok1", BaseURL |-> DefaultBaseURL]
    /\ fb \in {[kind |-> "call", bytes |-> b, out |-> Nil] : b \in ByteCounts}
    /\ ClientIdle
    /\ AdaptersIdle
    /\ ParseIdle
    /\ StoreLoaded
    /\ CmdIdle

NextFormat == FormatBytes

SpecFormat == InitFormat /\ [][NextFormat]_vars

\* =================================================================== claims
\* The call has returned after the transport delivered a response whose
\* body was read in full.
Received == pc = "returned" /\ reply.kind = "response" /\ reply.readOK

\* The member of a JSON object under a key, or Nil.
Member(body, key) ==
    IF body.kind = "object" /\ key \in DOMAIN body.members
    THEN body.members[key] ELSE Nil

\* The body is a JSON object whose success and message members, when
\* present, have the envelope's types (bool or null, string or null).
EnvelopeShaped(body) ==
    /\ body.kind = "object"
    /\ Member(body, "success").kind \in {"nil", "null", "bool"}
    /\ Member(body, "message").kind \in {"nil", "null", "string"}

\* The text of the body's message member, empty when there is none.
MessageOf(body) ==
    IF Member(body, "message").kind = "string" THEN Member(body, "message").s ELSE ""

\* C1: a response with status 401 makes request() return the unauthorized
\* error and no envelope, whatever the body (a success=true envelope, a
\* malformed text): the status is decided before the body is parsed.
C1_Unauthorized401 ==
    (Received /\ reply.status = StatusUnauthorized)
        => ret = Return(Nil, ErrUnauthorized)

C1_Witness ==
    /\ Received /\ reply.status = StatusUnauthorized
    /\ Member(reply.body, "success") = JBool(TRUE)
    /\ EnvelopeShaped(reply.body)
    /\ ret.err = ErrUnauthorized /\ ret.resp = Nil

\* C2: a response with status 429 makes request() return the rate-limited
\* error and no envelope, whatever the body, by the same precedence.
C2_RateLimited429 ==
    (Received /\ reply.status = StatusTooManyRequests)
        => ret = Return(Nil, ErrRateLimited)

C2_Witness ==
    /\ Received /\ reply.status = StatusTooManyRequests
    /\ reply.body = Malformed
    /\ ret.err = ErrRateLimited /\ ret.resp = Nil

\* C3: with a status other than 401 and 429, a body that parses as an
\* envelope with success=false makes request() fail with the API error
\* whose message is the envelope's message, whatever data and the status.
C3_APIErrorMessage ==
    (/\ Received
     /\ reply.status \notin {StatusUnauthorized, StatusTooManyRequests}
     /\ EnvelopeShaped(reply.body)
     /\ Member(reply.body, "success") = JBool(FALSE))
        => ret = Return(Nil, ErrAPI(MessageOf(reply.body)))

C3_Witness ==
    /\ Received /\ reply.status = 200
    /\ Member(reply.body, "success") = JBool(FALSE)
    /\ Member(reply.body, "message") = JStr("quota exceeded")
    /\ Member(reply.body, "data") = TicketData
    /\ ret = Return(Nil, ErrAPI("quota exceeded"))

\* C4: with a status other than 401 and 429, a valid envelope with
\* success=true is returned without an error, its success, message and data
\* those of the body, data being the raw JSON received (nil when absent).
C4_SuccessEnvelope ==
    (/\ Received
     /\ reply.status \notin {StatusUnauthorized, StatusTooManyRequests}
     /\ EnvelopeShaped(reply.body)
     /\ Member(reply.body, "success") = JBool(TRUE))
        => /\ ret.err = Nil
           /\ ret.resp = Response(TRUE, MessageOf(reply.body), Member(reply.body, "data"))

C4_Witness ==
    /\ Received /\ reply.status = 200
    /\ Member(reply.body, "success") = JBool(TRUE)
    /\ Member(reply.body, "message") = JStr("ok")
    /\ ret = Return(Response(TRUE, "ok", JNull), Nil)

\* The messages of the errors encoding/json reports for a response body.
DecodeErrors ==
    {"invalid character looking for beginning of value",
     "json: cannot unmarshal into Go struct field Response"}
        \cup {"json: cannot unmarshal " \o k \o " into Go value of type api.Response"
              : k \in JSONKinds}

\* C5: with a status other than 401 and 429, a body that does not parse as
\* the envelope shape (not JSON, a JSON value that is neither an object nor
\* null, an object with a member of the wrong type) makes request() fail
\* with the parse error and return no envelope.
C5_MalformedResponse ==
    (/\ Received
     /\ reply.status \notin {StatusUnauthorized, StatusTooManyRequests}
     /\ ~EnvelopeShaped(reply.body)
     /\ reply.body # JNull)
        => /\ ret.resp = Nil
           /\ \E reason \in DecodeErrors : ret.err = ErrParse(reason)

C5_Witness ==
    /\ Received /\ reply.status = 500
    /\ reply.body = Malformed
    /\ ret.resp = Nil
    /\ ret.err = ErrParse("invalid character looking for beginning of value")

\* C6: every call of request() returns either an envelope and a nil error,
\* or no envelope and an error; never both, never neither, and never an
\* envelope whose success is false.
C6_ExactlyOneOutcome ==
    pc = "returned"
        => \/ ret.resp # Nil /\ ret.err = Nil /\ ret.resp.Success
           \/ ret.resp = Nil /\ ret.err # Nil

C6_Witness ==
    /\ Received /\ reply.status = 404
    /\ Member(reply.body, "success") = JBool(FALSE)
    /\ EnvelopeShaped(reply.body)
    /\ ret.resp = Nil /\ ret.err # Nil

\* C7: the request handed to the transport carries Authorization exactly
\* when the configured token is non-empty at that moment, and then its
\* value is "Bearer " followed by that token; with an empty token no verb
\* sends the header, and a 401 that follows is the unauthorized error.
C7_BearerIffToken ==
    [][/\ (pc # "waiting" /\ pc' = "waiting")
            => /\ ("Authorization" \in DOMAIN wire'.header) <=> (config.Token # "")
               /\ config.Token # ""
                    => wire'.header["Authorization"] = "Bearer " \o config.Token
       /\ (pc = "waiting" /\ pc' = "returned" /\ config.Token = ""
              /\ reply'.kind = "response" /\ reply'.readOK
              /\ reply'.status = StatusUnauthorized)
            => /\ "Authorization" \notin DOMAIN wire.header
               /\ ret' = Return(Nil, ErrUnauthorized)]_vars

C7_Witness ==
    /\ Received /\ reply.status = StatusUnauthorized
    /\ call.method = "DELETE"
    /\ config.Token = ""
    /\ "Authorization" \notin DOMAIN wire.header
    /\ ret.err = ErrUnauthorized

\* C8: one call of request() hands at most one request to the transport:
\* after a failure of any kind it has returned the error with the request
\* sent once (not at all when the failure precedes the dispatch).
C8_AtMostOneDispatch ==
    /\ dispatched <= 1
    /\ (pc = "returned" /\ ret.err # Nil)
          => dispatched = (IF reply = Nil THEN 0 ELSE 1)
    /\ pc = "waiting" => dispatched = 1 /\ reply = Nil

C8_Witness ==
    /\ pc = "returned" /\ dispatched = 1
    /\ reply.kind = "response" /\ ~reply.readOK
    /\ ret = Return(Nil, ErrRead)

\* C9: the tolerant boolean decodes true, every nonzero number and every
\* string that parses as a true boolean to true; false, 0, "false", null,
\* an unparseable string, an object and an array to false; without an error
\* for any of these inputs.
C9_TolerantBool ==
    (dec # Nil /\ dec.op = "NumericBool" /\ WellFormed(dec.input))
        => /\ dec.err = Nil
           /\ nb = CASE dec.input.kind = "bool"   -> dec.input.b
                     [] dec.input.kind = "number" -> dec.input.mant # 0
                     [] dec.input.kind = "string" ->
                            dec.input.s \in {"1", "t", "T", "TRUE", "true", "True"}
                     [] OTHER -> FALSE

\* C10: the tolerant string decodes a JSON string to that string, an array
\* of strings to its first element, an empty array and null to the empty
\* string, each without an error.
C10_TolerantString ==
    (dec # Nil /\ dec.op = "FlexibleString")
        => /\ dec.err = Nil
           /\ dec.input.kind = "string" => fs = dec.input.s
           /\ dec.input.kind = "null" => fs = ""
           /\ (/\ dec.input.kind = "array"
               /\ \A i \in DOMAIN dec.input.elems : dec.input.elems[i].kind = "string")
                => fs = (IF dec.input.elems = <<>> THEN "" ELSE dec.input.elems[1].s)

C10_Witness ==
    /\ dec # Nil /\ dec.op = "FlexibleString"
    /\ dec.input = JArr(<<JStr("abc"), JStr("def")>>)
    /\ fs = "abc" /\ dec.err = Nil


\* C11: neither tolerant adapter ever returns a decode error: whatever the
\* input (well-formed or not), the error is nil, and an input that is not
\* well-formed JSON leaves the default (false / the empty string).
C11_NeverDecodeError ==
    dec # Nil
        => /\ dec.err = Nil
           /\ ~WellFormed(dec.input)
                => IF dec.op = "NumericBool" THEN nb = FALSE ELSE fs = ""

\* C12: encoding is canonical and round-trips: the tolerant boolean encodes
\* to the JSON literal true or false and the tolerant string to a JSON
\* string, never with an error, and decoding the encoded text gives the
\* value back whatever the receiver held.
C12_CanonicalRoundTrip ==
    /\ (enc # Nil /\ enc.op = "NumericBool")
          => /\ enc.err = Nil
             /\ enc.text \in {JBool(TRUE), JBool(FALSE)}
             /\ \A b0 \in BOOLEAN :
                   NumericBool_UnmarshalJSON(b0, enc.text) = [b |-> enc.value.b, err |-> Nil]
    /\ (enc # Nil /\ enc.op = "FlexibleString")
          => /\ enc.err = Nil
             /\ enc.text.kind = "string"
             /\ \A f0 \in {"", "old"} :
                   FlexibleString_UnmarshalJSON(f0, enc.text) = [f |-> enc.value.s, err |-> Nil]

C12_Witness ==
    /\ enc # Nil /\ enc.op = "NumericBool" /\ enc.text = JBool(TRUE)
    /\ enc.value = JBool(TRUE)
    /\ dec # Nil /\ dec.op = "NumericBool" /\ dec.input = JNum(FALSE, 1, 0)


\* The payload has the shape of a Ticket: a JSON object whose id, subject
\* and status members, when present and not null, are an integer, a string
\* and a string (is_closed is a tolerant boolean and takes any value).
TicketShaped(data) ==
    /\ data.kind = "object"
    /\ \/ Member(data, "id").kind \in {"nil", "null"}
       \/ Member(data, "id").kind = "number" /\ Member(data, "id").exp = 0
    /\ Member(data, "subject").kind \in {"nil", "null", "string"}
    /\ Member(data, "status").kind \in {"nil", "null", "string"}

\* C13 as claimed: ParseData returns the decoded payload with a nil error
\* when the payload's shape matches T, and a decode error whenever it does
\* not.
C13_ErrorIffShapeMismatch ==
    (parsed # Nil /\ parsed.type = "Ticket")
        => (parsed.err = Nil <=> TicketShaped(parsed.arg.Data))

\* C13 as amended: ParseData returns a nil error and the decoded payload
\* when the payload is null (the zero value) or an object whose declared
\* members are null or of the declared type; it returns a decode error when
\* the payload is absent, is any other JSON value, has a declared member of
\* another type, or has a tolerant-boolean member holding a number beyond
\* float64; the envelope is left as it was.
C13_ParseData ==
    (parsed # Nil /\ parsed.type = "Ticket")
        => LET d == parsed.arg.Data
               decodes == \/ d.kind = "null"
                          \/ /\ TicketShaped(d)
                             /\ ~(/\ Member(d, "is_closed").kind = "number"
                                  /\ ParseFloat(Member(d, "is_closed")) = "range")
           IN  /\ parsed.err = Nil <=> decodes
               /\ (parsed.err = Nil /\ Member(d, "id").kind = "number")
                     => parsed.val.id = GoInt(Member(d, "id").mant)
               /\ (parsed.err = Nil /\ d.kind = "null")
                     => parsed.val = [k \in DOMAIN TicketType |-> ZeroOf(TicketType[k])]
               /\ ret.resp = parsed.arg

C13_Witness ==
    /\ parsed # Nil /\ parsed.type = "Ticket"
    /\ parsed.arg.Data = TicketData
    /\ parsed.err = Nil
    /\ parsed.val.id = GoInt(42)
    /\ parsed.val.status = GoString("open")


\* What GetConfig leaves in a field: the file's value when the file is a
\* YAML mapping with that key, else the given default.
\* C14: over any number of GetConfig calls, concurrent first calls included,
\* Load runs at most once and has run once when any call has returned; all
\* calls return the same non-nil instance; and a caller never holds the
\* instance before the default base URL was set and the load was done.
FileValue(key, default) ==
    IF file.kind = "yaml" /\ key \in DOMAIN file.members
    THEN file.members[key] ELSE default
C14_InitialisedOnce ==
    /\ loads <= 1
    /\ \A g \in Goroutines :
          gs[g].got # Nil
              => /\ gs[g].got.ptr = Ptr
                 /\ gs[g].got.loads = 1
                 /\ loads = 1
                 /\ gs[g].got.sees = [Token |-> FileValue("token", ""),
                                       BaseURL |-> FileValue("base_url", DefaultBaseURL)]
    /\ \A g, h \in Goroutines :
          (gs[g].got # Nil /\ gs[h].got # Nil) => gs[g].got.ptr = gs[h].got.ptr

\* Two first calls ran concurrently: one goroutine holds the instance, in
\* its second call, while the other is still leaving the slow path of its
\* first.
C14_Witness ==
    /\ \E g, h \in Goroutines :
          /\ g # h
          /\ gs[g].got # Nil /\ gs[g].calls = 2
          /\ gs[h].pc = "unlock" /\ gs[h].calls = 1 /\ gs[h].got = Nil
    /\ file = YAML([token |-> "tok1"])
    /\ config = [Token |-> "tok1", BaseURL |-> DefaultBaseURL]


\* C15: a request in flight was built from the token and base URL the
\* configuration holds at the moment of the call (which it still holds while
\* the call waits), whatever it held when the client was constructed.
C15_CurrentConfig ==
    pc = "waiting"
        => /\ wire.url = config.BaseURL \o call.endpoint
           /\ IF config.Token = ""
              THEN "Authorization" \notin DOMAIN wire.header
              ELSE /\ "Authorization" \in DOMAIN wire.header
                   /\ wire.header["Authorization"] = "Bearer " \o config.Token

\* The client was constructed when the configuration held no token and the
\* default base URL; both were set afterwards, and the request in flight
\* carries the new ones.
C15_Witness ==
    /\ pc = "waiting"
    /\ client.seen = [Token |-> "", BaseURL |-> DefaultBaseURL]
    /\ config = [Token |-> "tok2", BaseURL |-> OtherBaseURL]
    /\ wire.url = OtherBaseURL \o "/v1/support/tickets"
    /\ wire.header["Authorization"] = "Bearer tok2"


\* C16: after the configuration is loaded, only login and logout change it:
\* a step of any other command, and a step of request() (a verb helper is
\* called, or httpClient.Do returns) inside any command, leaves the token
\* and the base URL in memory and the configuration file as they were.
C16_OnlyLoginAndLogout ==
    [][ LET running == IF cmd # Nil THEN cmd ELSE cmd'
            other == /\ running # Nil
                     /\ cmd' # Nil
                     /\ running.fn \notin {"NewLoginCmd", "NewLogoutCmd"}
            inRequest == \/ pc = "idle" /\ pc' \in {"waiting", "returned"}
                         \/ pc = "waiting"
        IN  (other \/ inRequest) => (config' = config /\ file' = file) ]_vars

\* 'ticket create' has run to its end, request sent and ticket decoded, in a
\* process that loaded a token; token and file are what they were.
C16_Witness ==
    /\ cmd # Nil /\ cmd.fn = "newTicketCreateCmd"
    /\ cmd.phase = "done" /\ cmd.out = "success" /\ cmd.sent = <<"POST">>
    /\ file = YAML([api_token |-> "tok1", base_url |-> DefaultBaseURL])
    /\ config = [Token |-> "", BaseURL |-> DefaultBaseURL]

\* C17 as claimed: with MIZBAN_API_TOKEN set and no token in the config
\* file, the request of 'server list' carries Authorization: Bearer <value
\* of MIZBAN_API_TOKEN>.
C17_EnvTokenAuthenticates ==
    (/\ cmd # Nil /\ cmd.fn = "newServerListCmd"
     /\ pc = "waiting"
     /\ env.MIZBAN_API_TOKEN # ""
     /\ FileValue("token", "") = "")
        => /\ "Authorization" \in DOMAIN wire.header
           /\ wire.header["Authorization"] = "Bearer " \o env.MIZBAN_API_TOKEN

\* The commands that return nil when the data does not decode: those that
\* then print their success message, and those that print the raw data.
LenientSuccess ==
    {"NewLoginCmd", "newDNSFetchRecordsCmd", "newDNSSECEnableCmd",
     "newPageRulesAddPathCmd", "newLogForwarderAddCmd"}
LenientRaw ==
    {"newDomainWhoisCmd", "newDomainReportsCmd", "newSSLInfoCmd",
     "newDNSCustomNSGetCmd", "newDNSSECStatusCmd"}

\* C18 as claimed: in every command a failure to decode the data is
\* terminal: the command returns a non-nil error and reports no success.
C18_DecodeFailureTerminal ==
    (cmd # Nil /\ cmd.decodeErr # Nil)
        => /\ cmd.phase = "done"
           /\ cmd.exit # Nil
           /\ cmd.out # "success"

\* C18 as amended: a failure to decode the data ends the command; it
\* returns a non-nil error and prints nothing in every command but ten:
\* login, dns fetch-records, dns dnssec enable, page-rules add-path and
\* log-forwarder add return nil and print their success message; domain
\* whois, domain reports, ssl info, dns custom-ns get and dns dnssec status
\* return nil and print the raw data.
C18_DecodeFailure ==
    (cmd # Nil /\ cmd.decodeErr # Nil)
        => /\ cmd.phase = "done"
           /\ IF cmd.fn \in LenientSuccess THEN cmd.exit = Nil /\ cmd.out = "success"
              ELSE IF cmd.fn \in LenientRaw THEN cmd.exit = Nil /\ cmd.out = "raw"
              ELSE cmd.exit # Nil /\ cmd.out = "none"

\* 'ticket create' got a success envelope whose data is a string.
C18_Witness ==
    /\ cmd # Nil /\ cmd.fn = "newTicketCreateCmd"
    /\ ret # Nil /\ ret.err = Nil /\ ret.resp.Data = JStr("unexpected")
    /\ cmd.decodeErr # Nil
    /\ cmd.exit # Nil

\* C19: in every command, once a call of the HTTP client has returned an
\* error the command has ended with a non-nil error and no success message,
\* and it has issued no request after the failed call.
C19_ClientErrorTerminal ==
    (cmd # Nil /\ cmd.callErr # Nil)
        => /\ cmd.phase = "done"
           /\ cmd.exit # Nil
           /\ cmd.out = "none"
           /\ pc = "idle"
           /\ Len(cmd.sent) <= cmd.step

\* The GET of 'ratelimit disable' was answered 401: no POST followed.
C19_Witness ==
    /\ cmd # Nil /\ cmd.fn = "newRateLimitDisableCmd"
    /\ cmd.callErr = ErrUnauthorized
    /\ cmd.exit = ErrUnauthorized
    /\ cmd.sent = <<"GET">>
    /\ cmd.phase = "done"

\* The requests the running command has handed to httpClient.Do, in order.
Issued ==
    cmd.sent \o (IF pc \in {"waiting", "returned"} /\ dispatched > 0
                 THEN <<call.method>> ELSE << >>)

\* C20: a command issues at most two requests; every command other than
\* 'ratelimit disable' at most one; and 'ratelimit disable' a GET and then,
\* only after that GET returned without error and its data decoded, a POST.
C20_AtMostTwoRequests ==
    cmd # Nil
        => /\ Len(Issued) <= 2
           /\ cmd.fn # "newRateLimitDisableCmd" => Len(Issued) <= 1
           /\ Len(Issued) = 2 => /\ Issued = <<"GET", "POST">>
                                 /\ cmd.step = 2
                                 /\ cmd.decodeErr = Nil
           /\ (cmd.decodeErr # Nil \/ (cmd.callErr # Nil /\ cmd.step = 1))
                 => Len(Issued) <= 1

\* 'ratelimit disable' has read the settings and written them back.
C20_Witness ==
    /\ cmd # Nil /\ cmd.fn = "newRateLimitDisableCmd"
    /\ cmd.sent = <<"GET", "POST">>
    /\ cmd.phase = "done" /\ cmd.out = "success" /\ cmd.exit = Nil

\* The errors request() may return for what the transport delivered, told
\* from the delivery alone.
ExpectedErr(r) ==
    IF r.kind = "transport-error" THEN {ErrTransport}
    ELSE IF ~r.readOK THEN {ErrRead}
    ELSE IF r.status = StatusUnauthorized THEN {ErrUnauthorized}
    ELSE IF r.status = StatusTooManyRequests THEN {ErrRateLimited}
    ELSE IF ~EnvelopeShaped(r.body) /\ r.body # JNull
    THEN {ErrParse(reason) : reason \in DecodeErrors}
    ELSE IF Member(r.body, "success") = JBool(TRUE) THEN {Nil}
    ELSE {ErrAPI(MessageOf(r.body))}

\* C21: the verb helpers are request() with the verb fixed: the request on
\* the wire has the verb of the helper called; Get and Delete pass no body;
\* a body is serialised and sent exactly when the one passed is not nil;
\* and the outcome is told from what the transport delivered alone, the
\* same for all four verbs.
C21_VerbHelpers ==
    /\ call # Nil
          => /\ call.method \in Methods
             /\ call.method \in {"GET", "DELETE"} => call.body = Nil
    /\ pc = "waiting"
          => /\ wire.method = call.method
             /\ (wire.body # Nil) <=> (call.body # Nil)
             /\ call.body # Nil
                   => wire.body = JObj([k \in DOMAIN call.body.entries |->
                                           JStr(call.body.entries[k])])
    /\ (pc = "returned" /\ reply # Nil) => ret.err \in ExpectedErr(reply)

\* A Put with a body was sent with that body serialised and was answered
\* with a success envelope.
C21_Witness ==
    /\ Received
    /\ call.method = "PUT" /\ call.body = TicketBody
    /\ wire.method = "PUT"
    /\ wire.body = JObj([subject |-> JStr("x"), message |-> JStr("y")])
    /\ ret.err = Nil /\ ret.resp # Nil

\* C22: login writes the configuration file only once the GET of
\* /v1/auth/profile made with the new token has returned without an error:
\* with an empty token or a failed GET the file stays as it was; and when
\* login ends well the file holds the supplied token, and the base URL of
\* --url when one was given.
C22_LoginPersistsAfterValidation ==
    [][ (cmd' # Nil /\ cmd'.fn = "NewLoginCmd")
           => /\ file' # file
                    => /\ cmd # Nil
                       /\ pc = "returned" /\ ret.err = Nil
                       /\ call.method = "GET" /\ call.endpoint = "/v1/auth/profile"
                       /\ wire.header["Authorization"] = "Bearer " \o cmd.args.token
              /\ (cmd'.phase = "done" /\ cmd'.exit = Nil)
                    => file' = YAML([token |-> cmd'.args.token,
                                     base_url |-> IF cmd'.args.url # ""
                                                  THEN cmd'.args.url ELSE config.BaseURL]) ]_vars

\* A login with --token tok2 and --url, in a process that had loaded tok1,
\* has ended well and the file holds both.
C22_Witness ==
    /\ cmd # Nil /\ cmd.fn = "NewLoginCmd"
    /\ cmd.phase = "done" /\ cmd.exit = Nil
    /\ cmd.args = [kind |-> "args", token |-> "tok2", url |-> OtherBaseURL]
    /\ client.seen = [Token |-> "tok2", BaseURL |-> OtherBaseURL]
    /\ file = YAML([token |-> "tok2", base_url |-> OtherBaseURL])
    /\ ret.err = Nil

\* What a process loads for a key from config file f: the file's value when
\* f is a YAML mapping with that key, else the default.
ValueIn(f, key, default) ==
    IF f.kind = "yaml" /\ key \in DOMAIN f.members THEN f.members[key] ELSE default

\* C23 as claimed: once a logout has written the file with an empty token,
\* no request carries an Authorization header until a login has succeeded.
C23_NoAuthorizationAfterLogout ==
    (/\ file.kind = "yaml"
     /\ "token" \in DOMAIN file.members
     /\ file.members["token"] = ""
     /\ pc = "waiting")
        => "Authorization" \notin DOMAIN wire.header

\* C23 as amended: a logout that ends well leaves the persisted token empty
\* and the base URL a process loads unchanged; while the persisted token is
\* empty, every command but login runs with IsLoggedIn false and sends no
\* Authorization header (the GET by which a login validates its new token
\* does carry that token, also when the login then fails); and the
\* persisted token changes only when a login ends well, to the token
\* supplied, and when a logout ends well, to the empty token.
C23_Logout ==
    /\ [](/\ (cmd # Nil /\ cmd.fn = "NewLogoutCmd" /\ cmd.exit = Nil)
               => ValueIn(file, "token", "") = ""
          /\ (cmd # Nil /\ cmd.fn # "NewLoginCmd" /\ ValueIn(file, "token", "") = "")
               => /\ ~IsLoggedIn(config)
                  /\ pc = "waiting" => "Authorization" \notin DOMAIN wire.header)
    /\ [][/\ (cmd' # Nil /\ cmd'.fn = "NewLogoutCmd")
               => ValueIn(file', "base_url", DefaultBaseURL)
                     = ValueIn(file, "base_url", DefaultBaseURL)
          /\ ValueIn(file', "token", "") # ValueIn(file, "token", "")
               => \/ /\ cmd' # Nil /\ cmd'.fn = "NewLoginCmd"
                     /\ cmd'.phase = "done" /\ cmd'.exit = Nil
                     /\ ValueIn(file', "token", "") = cmd'.args.token
                  \/ /\ cmd' # Nil /\ cmd'.fn = "NewLogoutCmd" /\ cmd'.exit = Nil
                     /\ ValueIn(file', "token", "") = ""]_vars

\* After a logout wrote the empty token over tok1, a later 'server list'
\* has its request in flight without an Authorization header.
C23_Witness ==
    /\ file = YAML([token |-> "", base_url |-> DefaultBaseURL])
    /\ cmd # Nil /\ cmd.fn = "newServerListCmd"
    /\ pc = "waiting"
    /\ ~IsLoggedIn(config)
    /\ "Authorization" \notin DOMAIN wire.header

\* C24 (as claimed): the DELETE request of 'custom-pages delete' identifies
\* the error code: the request sent for --code c differs from the request
\* the same invocation would send for every other valid code.
C24_RequestIdentifiesCode ==
    (cmd # Nil /\ cmd.fn = "newCustomPagesDeleteCmd" /\ pc = "waiting")
        => \A code \in validCodes \ {cmd.args.code} :
              LET k == CallOf([cmd EXCEPT !.args.code = code])
              IN  BuildRequest(ConfigOf(client), k.method, k.path, k.body).req # wire

\* Claim-side: two JSON values that say the same (a number by its value).
SameValue(a, b) ==
    IF a.kind = "number" /\ b.kind = "number"
    THEN a.exp = b.exp /\ a.mant = b.mant /\ (a.neg = b.neg \/ a.mant = 0)
    ELSE a = b

\* Claim-side: the members of the POST body of 'ratelimit disable' and the
\* members of the GET answer they are claimed to repeat.
Preserved ==
    {<<"request_count", "limit">>, <<"block_time", "block">>,
     <<"methods", "allow_methods">>, <<"ips", "whitelist">>,
     <<"countries", "allow_countries">>}

RejectedUnsent ==
    /\ cmd.phase = "done" /\ cmd.exit # Nil /\ cmd.callErr = Nil
    /\ cmd.sent = << >> /\ dispatched = 0 /\ pc = "idle" /\ wire = Nil

\* Claim-side: the rejected inputs that do not depend on a JSON text.
BadFlags ==
    \/ cmd.fn = "NewLoginCmd" /\ cmd.args.token = ""
    \/ cmd.fn = "newProfileUpdateCmd" /\ cmd.args.name = "" /\ cmd.args.phone = ""
    \/ cmd.fn = "newCachePurgeCmd" /\ ~cmd.args.all /\ cmd.args.urls = << >>
    \/ cmd.fn \in {"newCustomPagesSetCmd", "newCustomPagesDeleteCmd"}
          /\ cmd.args.code \notin {403, 404, 500, 502, 503, 504}

\* Claim-side: the JSON text given to page-rules set-rule or to
\* log-forwarder add is of none of these kinds.
TextOutside(kinds) ==
    \/ cmd.fn = "newPageRulesSetCmd" /\ cmd.args.settings.kind \notin kinds
    \/ cmd.fn = "newLogForwarderAddCmd" /\ cmd.args.config # Nil
          /\ cmd.args.config.kind \notin kinds

\* C26 (as claimed): a command run with one of the listed inputs, settings
\* or --config being anything but a JSON object, returns an error and no
\* request has been issued.
C26_NonObjectRejected ==
    (cmd # Nil /\ (BadFlags \/ TextOutside({"object"}))) => RejectedUnsent

\* C26 (amended): a command run with one of the listed inputs, settings or
\* --config being neither a JSON object nor null, returns an error and no
\* request has been issued.
C26_ValidationPrecedesNetwork ==
    (cmd # Nil /\ (BadFlags \/ TextOutside({"object", "null"}))) => RejectedUnsent

C26_Witness ==
    /\ cmd # Nil /\ cmd.fn = "newCachePurgeCmd" /\ ~cmd.args.all /\ cmd.args.urls = << >>
    /\ client # Nil /\ RejectedUnsent /\ cmd.exit = Error("specify --all or --url")

\* Claim-side: the delete command has ended with "Aborted", without an
\* error and without a request.
AbortedUnsent ==
    /\ cmd.phase = "done" /\ cmd.out = "aborted" /\ cmd.exit = Nil
    /\ cmd.sent = << >> /\ dispatched = 0 /\ wire = Nil /\ pc = "idle"

\* Claim-side: the delete command has gone on to its one DELETE request.
GoesOn ==
    /\ cmd.out # "aborted"
    /\ cmd.phase = "run" \/ cmd.callErr # Nil \/ cmd.sent = <<"DELETE">>
    /\ wire # Nil => wire.method = "DELETE"

\* C27 (as claimed): a delete command with a --force flag sends its DELETE
\* only if --force is set or the line typed at the prompt is exactly "yes";
\* for any other line it sends nothing and ends without an error.
C27_OnlyExactYes ==
    (cmd # Nil /\ cmd.fn \in ForceDeletes)
        => IF cmd.args.force \/ cmd.args.stdin = <<"yes">> THEN GoesOn ELSE AbortedUnsent

\* C27 (amended): a delete command with a --force flag sends its DELETE
\* only if --force is set or the first word of the line typed at the prompt
\* is exactly "yes"; else (an empty line, "y", "YES", "no") it sends nothing
\* and ends without an error.
C27_ForceOrYes ==
    (cmd # Nil /\ cmd.fn \in ForceDeletes)
        => IF cmd.args.force
              \/ (cmd.args.stdin # << >> /\ cmd.args.stdin[1] = "yes")
           THEN GoesOn ELSE AbortedUnsent

C27_Witness ==
    /\ cmd # Nil /\ cmd.fn = "newDomainDeleteCmd"
    /\ ~cmd.args.force /\ cmd.args.stdin = <<"YES">>
    /\ AbortedUnsent

\* C28: with a status other than 401 and 429, a body that is a JSON object
\* without a success member (its message, if any, a string or null) or that
\* is the literal null is not a parse error: request() returns no envelope
\* and the API error with the body's message, empty when there is none.
C28_MissingSuccessIsFailure ==
    (/\ Received
     /\ reply.status \notin {StatusUnauthorized, StatusTooManyRequests}
     /\ \/ reply.body = JNull
        \/ EnvelopeShaped(reply.body) /\ "success" \notin DOMAIN reply.body.members)
        => /\ ret = Return(Nil, ErrAPI(MessageOf(reply.body)))
           /\ \A reason \in DecodeErrors : ret.err # ErrParse(reason)

C28_Witness ==
    /\ Received /\ reply.status = 200
    /\ reply.body = JObj([error |-> JStr("not found")])
    /\ ret = Return(Nil, ErrAPI(""))

\* C29 (as claimed): whenever 'profile api-keys list' has received a
\* successful response whose data decodes, it prints the keys and returns
\* nil, whatever the length of the tokens.
C29_ListNeverFails ==
    (/\ cmd # Nil /\ cmd.fn = "newAPIKeyListCmd" /\ cmd.phase = "done"
     /\ cmd.callErr = Nil /\ cmd.decodeErr = Nil)
        => cmd.exit = Nil /\ cmd.out = "success"

\* Claim-side: unit to the power k as an int64, for k up to 6.
PowerOfUnit(k) == [i \in 1..7 |-> IF i = k + 1 THEN 1 ELSE 0]

\* C30: formatBytes returns for every int64 without a panic: a value below
\* 1024, negative ones included, is printed in bytes; for any other the
\* index of the unit is within "KMGTPE" and the divisor is 1024 to the
\* power index+1, a power that fits an int64 and is not above the value.
C30_FormatBytesTotal ==
    (fb # Nil /\ fb.out # Nil)
        => /\ fb.out.kind = "text"
           /\ IF fb.bytes[7] >= 8 \/ (\A i \in 2..7 : fb.bytes[i] = 0)
              THEN fb.out.format = "%d B" /\ fb.out.value = fb.bytes
              ELSE /\ fb.out.exp \in 0..5
                   /\ fb.out.letter = <<"K", "M", "G", "T", "P", "E">>[fb.out.exp + 1]
                   /\ fb.out.div = PowerOfUnit(fb.out.exp + 1)
                   /\ \E i \in (fb.out.exp + 2)..7 : fb.bytes[i] # 0
                   /\ \A i \in (fb.out.exp + 3)..7 : fb.bytes[i] = 0

C30_Witness ==
    /\ fb # Nil /\ fb.bytes = MaxInt64
    /\ fb.out # Nil /\ fb.out.kind = "text"
    /\ fb.out.exp = 5 /\ fb.out.letter = "E" /\ fb.out.div = PowerOfUnit(6)

=============================================================================
